---- MODULE Spec2Model ----
(***************************************************************************)
(* Model of the luxury-travel-bot pipeline (src/Luxury_Travel_Bot.py):     *)
(* parameter extraction and normalisation, keyword routing, content        *)
(* generation, file naming and the /api/chat handler.                      *)
(*                                                                         *)
(* Python values are tagged records; a Python str is a sequence of         *)
(* one-character strings, so that lower(), substring search, replace and   *)
(* slicing are computed, not assumed.                                      *)
(*                                                                         *)
(* SpecExtract runs the extractor alone on every outcome of its model      *)
(* call; Spec runs one POST /api/chat from the request to the reply.       *)
(***************************************************************************)
EXTENDS Integers, Sequences, FiniteSets, TLC

VARIABLES
    pc,             \* position of the running handler / function under test
    request,        \* the HTTP request body as Flask sees it
    message,        \* chat(): local `message`
    extraction,     \* outcome of the model call made by extract_parameters
    parameters,     \* result of extract_parameters
    renormalized,   \* normalize_parameters applied to `parameters` once more
    doc_type,       \* chat(): local `doc_type`
    generation,     \* outcome of the model call made by the generator
    content,        \* chat(): local `content`
    filename,       \* chat(): local `filename`
    pdf_path,       \* chat(): local `pdf_path`
    reply,          \* the HTTP reply of chat()
    calls,          \* the pipeline functions chat() has called, in order
    model_calls,    \* number of requests.post calls made for this request
    documents,      \* names of the files written under STORAGE_DIR
    affiliate_links,      \* Luxury_Travel_Bot_old.py: the global catalog
    response_text,        \* the generated text handed to the resolver
    link_style,           \* the style argument of the resolver
    story,                \* the story (list of flowables) built by the function under test
    matched_destinations, \* what the resolver returned
    banner_files,         \* create_pdf: the banners whose image file exists
    stored,               \* per handled request, the filename it stored its document under
    clock,                \* the wall clock, in seconds
    affiliate_destinations, \* generate_getaway: the destination list put into the prompt
    destination_links,    \* format_getaway_results: the link kept for each display name
    cache,                \* Luxury_Travel_Bot_old.py: the global response cache
    threads,              \* the calls of call_openai_or_data_store in progress
    line_error,           \* create_pdf: the content line whose rendering raised, 0 if none
    upload_response       \* dialogflow_webhook: what the upload did

\* the state of one POST /api/chat and of the extractor run on its own
chat_vars == <<request, message, extraction, parameters, renormalized, doc_type,
               generation, content, filename, pdf_path, reply, calls, model_calls,
               documents>>

\* the state of the functions run on their own
lib_vars == <<affiliate_links, response_text, link_style, story, matched_destinations,
              banner_files, stored, clock>>

\* the state of the prompt builder, the link map and the response cache
more_vars == <<affiliate_destinations, destination_links, cache, threads, line_error,
               upload_response>>

vars == <<pc, chat_vars, lib_vars, more_vars>>

-----------------------------------------------------------------------------
(* Bounds of the model *)

MaxListLen == 2      \* longest list the model returns for a list field
MaxContentLen == 2   \* fragments in the extraction model's reply text
MaxWords == 2        \* words in a chat message
MaxTime == 1         \* the clock takes the values 0..MaxTime (seconds)

-----------------------------------------------------------------------------
(* Python values *)

JNull == [t |-> "null"]
JNum(n) == [t |-> "num", n |-> n]
JStr(s) == [t |-> "str", s |-> s]
JList(l) == [t |-> "list", l |-> l]
JDict == [t |-> "dict"]     \* some non-empty dict

None == JNull

IsStr(v) == v.t = "str"
IsList(v) == v.t = "list"
IsNum(v) == v.t = "num"

\* Python truthiness: bool(v)
Truthy(v) ==
    CASE v.t = "null" -> FALSE
      [] v.t = "num"  -> v.n # 0
      [] v.t = "str"  -> Len(v.s) > 0
      [] v.t = "list" -> Len(v.l) > 0
      [] OTHER -> TRUE

\* len(v) of a str or a list
PyLen(v) == IF IsStr(v) THEN Len(v.s) ELSE Len(v.l)

\* dict operations
Get(d, k) == IF k \in DOMAIN d THEN d[k] ELSE None
GetOr(d, k, dflt) == IF k \in DOMAIN d THEN d[k] ELSE dflt
Put(d, k, v) == [x \in (DOMAIN d) \cup {k} |-> IF x = k THEN v ELSE d[x]]
SetDefault(d, k, v) == IF k \in DOMAIN d THEN d ELSE Put(d, k, v)

\* string literals used by the program and by the inputs
S_Paris == <<"P", "a", "r", "i", "s">>
S_Rome == <<"R", "o", "m", "e">>
S_5000 == <<"$", "5", "0", "0", "0">>
S_100 == <<"$", "1", "0", "0">>
S_ski == <<"s", "k", "i">>
S_warm == <<"w", "a", "r", "m">>
S_beach == <<"b", "e", "a", "c", "h">>
S_winter == <<"w", "i", "n", "t", "e", "r">>
S_seven == <<"s", "e", "v", "e", "n">>

DefaultDays == 7
DefaultFamilySize == 2

-----------------------------------------------------------------------------
(* Parameter Extractor *)

get_default_parameters ==
    [destination |-> JList(<<JStr(S_Paris)>>),
     number_of_days |-> JNum(DefaultDays),
     budget |-> JStr(S_5000),
     preferred_activities |-> None,
     family_size |-> JNum(DefaultFamilySize),
     ages |-> None,
     travel_dates |-> None,
     climate_preferences |-> None,
     geography_scenery |-> None]

\* [d for d in l if d]
FilterTruthy(l) == SelectSeq(l, Truthy)

\* a variant that wraps the destination without the isinstance test
CoerceDestination_AlwaysWrap(params) ==
    IF Truthy(Get(params, "destination"))
    THEN Put(params, "destination",
             JList(FilterTruthy(<<params["destination"]>>)))
    ELSE params

\* lines 1008-1012
CoerceDestination(params) ==
    IF Truthy(Get(params, "destination"))
    THEN LET d == params["destination"]
             l == IF IsList(d) THEN d.l ELSE <<d>>
         IN Put(params, "destination", JList(FilterTruthy(l)))
    ELSE params

\* a variant that forgets the fallback destination
DefaultDestination_None(params) == params

\* lines 1015-1016
DefaultDestination(params) ==
    IF ~Truthy(Get(params, "destination")) \/ PyLen(params["destination"]) = 0
    THEN Put(params, "destination", JList(<<JStr(S_Paris)>>))
    ELSE params

\* lines 1018-1020
FillDefaults(params) ==
    SetDefault(SetDefault(SetDefault(params,
        "number_of_days", JNum(DefaultDays)),
        "family_size", JNum(DefaultFamilySize)),
        "budget", JStr(S_5000))

normalize_parameters(params) ==
    FillDefaults(DefaultDestination(CoerceDestination(params)))

(* The reply text of the extraction model is a sequence of fragments:      *)
(*   "prose"      text without braces                                      *)
(*   "object"     the text of one valid JSON object (it parses to `obj`)   *)
(*   "badobject"  text in braces that is not valid JSON, {destination: ..} *)
(*   "open"       text with a stray opening brace, no closing one          *)
(*   "close"      text with a stray closing brace, no opening one          *)
Fragments == {"prose", "object", "badobject", "open", "close"}
HasOpen(f) == f \in {"object", "badobject", "open"}
HasClose(f) == f \in {"object", "badobject", "close"}

NoMatch == <<"no match">>

\* re.search(r'\{.*\}', content, re.DOTALL): the leftmost opening brace that
\* has a closing brace after it, up to the LAST closing brace of the text.
re_search_braces(text) ==
    LET closes == {j \in 1..Len(text) : HasClose(text[j])}
        starts == {i \in 1..Len(text) :
                      /\ HasOpen(text[i])
                      /\ \E j \in closes : j > i \/ (j = i /\ HasClose(text[i]))}
    IN IF starts = {} THEN NoMatch
       ELSE LET i == CHOOSE x \in starts : \A y \in starts : x <= y
                j == CHOOSE x \in closes : \A y \in closes : y <= x
            IN SubSeq(text, i, j)

\* json.loads(span) succeeds exactly when the span is one valid object
JsonLoadsOk(span) == span = <<"object">>

\* a variant that normalises an empty record when the reply holds no JSON
extract_parameters_EmptyOnNoJson(o) ==
    IF o.kind = "ok"
    THEN IF JsonLoadsOk(re_search_braces(o.text))
         THEN normalize_parameters(o.obj)
         ELSE normalize_parameters(<<>>)
    ELSE get_default_parameters

\* lines 953-1002; `o` is what requests.post produced
extract_parameters(o) ==
    IF o.kind = "ok"
    THEN LET json_match == re_search_braces(o.text)
         IN IF json_match # NoMatch
            THEN IF JsonLoadsOk(json_match)
                 THEN normalize_parameters(o.obj)
                 ELSE get_default_parameters      \* json.loads raised
            ELSE get_default_parameters
    ELSE get_default_parameters       \* raised, non-200, or malformed body

-----------------------------------------------------------------------------
(* Inputs of the extractor: what the model may return *)

Absent == [t |-> "absent"]
MkObj(f) == [k \in {x \in DOMAIN f : f[x] # Absent} |-> f[k]]
SeqsUpTo(S, n) == UNION {[1..k -> S] : k \in 0..n}

DestElems == {JNull, JStr(<<>>), JStr(S_Rome), JNum(5)}
DestVals == {Absent, JNull, JStr(S_Rome), JStr(<<>>), JNum(0), JDict}
            \cup {JList(l) : l \in SeqsUpTo(DestElems, MaxListLen)}
DayVals == {Absent, JNull, JNum(0), JNum(-1), JNum(3), JStr(S_seven)}
SizeVals == {Absent, JNull, JNum(0), JNum(4)}
BudgetVals == {Absent, JNull, JStr(S_100)}
ActElems == {JStr(S_ski), JNum(5)}
ActVals == {Absent, JNull, JStr(S_ski)}
           \cup {JList(l) : l \in SeqsUpTo(ActElems, MaxListLen)}
AgesVals == {Absent, JNull, JNum(5), JList(<<JNum(5)>>)}
ClimateVals == {Absent, JNull, JStr(S_warm), JList(<<JStr(S_warm)>>)}
SceneryVals == {Absent, JStr(S_beach), JNum(7)}
DatesVals == {Absent, JStr(S_winter)}

\* objects that vary the defaulted fields, and objects that vary the optional ones
ParsedObjects ==
    {MkObj([destination |-> d, number_of_days |-> n, family_size |-> f,
            budget |-> b, preferred_activities |-> Absent, ages |-> Absent,
            travel_dates |-> Absent, climate_preferences |-> Absent,
            geography_scenery |-> Absent]) :
        d \in DestVals, n \in DayVals, f \in SizeVals, b \in BudgetVals}
    \cup
    {MkObj([destination |-> JList(<<JStr(S_Rome)>>), number_of_days |-> JNum(3),
            family_size |-> Absent, budget |-> Absent,
            preferred_activities |-> a, ages |-> g, travel_dates |-> t,
            climate_preferences |-> c, geography_scenery |-> s]) :
        a \in ActVals, g \in AgesVals, t \in DatesVals,
        c \in ClimateVals, s \in SceneryVals}

EmptyObject == MkObj([destination |-> Absent])

ReplyTexts == SeqsUpTo(Fragments, MaxContentLen)

\* what the first object of a longer reply may parse to
FirstObjects ==
    {EmptyObject, MkObj([destination |-> JStr(S_Rome), number_of_days |-> JNum(3)])}

\* every outcome of the extraction call; `obj` is what the first valid
\* object of the reply parses to: a reply that is exactly one object carries
\* any parsed object, the other replies carry one of FirstObjects
ExtractionOutcomes ==
    {[kind |-> "raise"], [kind |-> "status", code |-> 500], [kind |-> "malformed"]}
    \cup {[kind |-> "ok", text |-> <<"object">>, obj |-> p] : p \in ParsedObjects}
    \cup {[kind |-> "ok", text |-> x, obj |-> p] : x \in ReplyTexts, p \in FirstObjects}

-----------------------------------------------------------------------------
(* The extractor on its own: one call of extract_parameters on any outcome *)
(* of the model call, then normalize_parameters applied to what it returned *)

Unset == [t |-> "unset"]

\* the functions run on their own have not run
LibIdle ==
    /\ affiliate_links = Unset /\ response_text = Unset /\ link_style = Unset
    /\ story = Unset /\ matched_destinations = Unset /\ banner_files = Unset
    /\ stored = <<>> /\ clock = 0

MoreIdle ==
    /\ affiliate_destinations = Unset /\ destination_links = Unset
    /\ cache = <<>> /\ threads = <<>> /\ line_error = 0
    /\ upload_response = Unset

InitExtract ==
    /\ pc = "x_call"
    /\ request = Unset /\ message = Unset /\ extraction = Unset
    /\ parameters = Unset /\ renormalized = Unset /\ doc_type = "unset"
    /\ generation = Unset
    /\ content = Unset /\ filename = Unset /\ pdf_path = Unset
    /\ reply = Unset /\ calls = <<>> /\ model_calls = 0 /\ documents = {}
    /\ LibIdle
    /\ MoreIdle

ExtractCall ==
    /\ pc = "x_call"
    /\ \E o \in ExtractionOutcomes :
          /\ extraction' = o
          /\ parameters' = extract_parameters(o)
    /\ pc' = "x_returned"
    /\ calls' = Append(calls, "extract_parameters")
    /\ model_calls' = model_calls + 1
    /\ UNCHANGED <<request, message, renormalized, doc_type, generation, content,
                   filename, pdf_path, reply, documents>>
    /\ UNCHANGED lib_vars
    /\ UNCHANGED more_vars

NormalizeAgain ==
    /\ pc = "x_returned"
    /\ renormalized' = normalize_parameters(parameters)
    /\ pc' = "x_renormalized"
    /\ calls' = Append(calls, "normalize_parameters")
    /\ UNCHANGED <<request, message, extraction, parameters, doc_type, generation,
                   content, filename, pdf_path, reply, model_calls, documents>>
    /\ UNCHANGED lib_vars
    /\ UNCHANGED more_vars

NextExtract == ExtractCall \/ NormalizeAgain

SpecExtract == InitExtract /\ [][NextExtract]_vars

-----------------------------------------------------------------------------
(* Python str operations *)

UpperAlphabet == <<"A", "B", "C", "D", "E", "F", "G", "H", "I", "J", "K", "L", "M", "N", "O", "P", "Q", "R", "S", "T", "U", "V", "W", "X", "Y", "Z">>
LowerAlphabet == <<"a", "b", "c", "d", "e", "f", "g", "h", "i", "j", "k", "l", "m", "n", "o", "p", "q", "r", "s", "t", "u", "v", "w", "x", "y", "z">>

LowerChar(c) ==
    IF \E i \in 1..Len(UpperAlphabet) : UpperAlphabet[i] = c
    THEN LowerAlphabet[CHOOSE i \in 1..Len(UpperAlphabet) : UpperAlphabet[i] = c]
    ELSE c

\* s.lower()
Lower(s) == [i \in 1..Len(s) |-> LowerChar(s[i])]

\* w in s
Contains(s, w) ==
    \E i \in 1..(Len(s) - Len(w) + 1) : SubSeq(s, i, i + Len(w) - 1) = w

\* s.replace(a, b) for one-character a and b
Replace(s, a, b) == [i \in 1..Len(s) |-> IF s[i] = a THEN b ELSE s[i]]

\* s[:n]
Take(s, n) == SubSeq(s, 1, IF Len(s) < n THEN Len(s) ELSE n)

RECURSIVE JoinStrs(_, _)
\* sep.join(l) for a list l of str values
JoinStrs(sep, l) ==
    IF Len(l) = 0 THEN <<>>
    ELSE IF Len(l) = 1 THEN l[1].s
    ELSE l[1].s \o sep \o JoinStrs(sep, Tail(l))

\* sep.join(v) raises TypeError: v is not iterable, or holds a non-str item
JoinRaises(v) ==
    CASE IsStr(v) -> FALSE
      [] IsList(v) -> \E i \in 1..Len(v.l) : ~IsStr(v.l[i])
      [] OTHER -> TRUE

Digits == <<"0", "1", "2", "3", "4", "5", "6", "7", "8", "9">>

RECURSIVE NumStr(_)
\* str(n) of an int
NumStr(n) ==
    IF n < 0 THEN <<"-">> \o NumStr(0 - n)
    ELSE IF n < 10 THEN <<Digits[n + 1]>>
    ELSE NumStr(n \div 10) \o <<Digits[(n % 10) + 1]>>

RECURSIVE PyRepr(_)
\* repr(v), and str(v) of a value that is not a str
PyRepr(v) ==
    CASE v.t = "null" -> <<"N", "o", "n", "e">>
      [] v.t = "num" -> NumStr(v.n)
      [] v.t = "str" -> <<"'">> \o v.s \o <<"'">>
      [] v.t = "dict" -> <<"{", ".", ".", ".", "}">>
      [] v.t = "list" ->
            <<"[">> \o
            JoinStrs(<<",", " ">>, [i \in 1..Len(v.l) |-> JStr(PyRepr(v.l[i]))])
            \o <<"]">>

\* what an f-string puts for {v}
Format(v) == IF IsStr(v) THEN v.s ELSE PyRepr(v)

-----------------------------------------------------------------------------
(* Intent routing, chat() lines 1391-1408 *)

GetawayKeywords == {<<"g", "e", "t", "a", "w", "a", "y">>,
                    <<"v", "a", "c", "a", "t", "i", "o", "n">>,
                    <<"e", "s", "c", "a", "p", "e">>,
                    <<"w", "e", "e", "k", "e", "n", "d">>}
ItineraryKeywords == {<<"i", "t", "i", "n", "e", "r", "a", "r", "y">>,
                      <<"p", "l", "a", "n">>,
                      <<"t", "r", "i", "p">>,
                      <<"s", "c", "h", "e", "d", "u", "l", "e">>,
                      <<"d", "a", "y", "-", "b", "y", "-", "d", "a", "y">>}

\* a variant that tests the itinerary keywords first
route_ItineraryFirst(message_lower) ==
    IF \E w \in ItineraryKeywords : Contains(message_lower, w) THEN "itinerary"
    ELSE IF \E w \in GetawayKeywords : Contains(message_lower, w) THEN "getaway"
    ELSE "unknown"

\* a variant whose else branch falls through to the itinerary generator
route_NoUnknown(message_lower) ==
    IF \E w \in GetawayKeywords : Contains(message_lower, w) THEN "getaway"
    ELSE "itinerary"

\* the if / elif / else of lines 1394-1401
route(message_lower) ==
    IF \E w \in GetawayKeywords : Contains(message_lower, w) THEN "getaway"
    ELSE IF \E w \in ItineraryKeywords : Contains(message_lower, w) THEN "itinerary"
    ELSE "unknown"

-----------------------------------------------------------------------------
(* Content Generator *)

ParisList == JList(<<JStr(S_Paris)>>)

\* building the itinerary prompt raises (lines 1044-1067)
ItineraryPromptRaises(p) ==
    LET d0 == GetOr(p, "destination", ParisList)
        destinations_list == IF ~Truthy(d0) \/ ~IsList(d0) THEN ParisList ELSE d0
    IN \/ JoinRaises(destinations_list)
       \/ {"number_of_days", "budget", "family_size"} \ DOMAIN p # {}
       \/ /\ Truthy(Get(p, "preferred_activities"))
          /\ JoinRaises(p["preferred_activities"])

\* building the getaway prompt raises (lines 1092-1142)
GetawayPromptRaises(p) ==
    LET activities == GetOr(p, "preferred_activities", JList(<<>>))
    IN Truthy(activities) /\ IsList(activities) /\ JoinRaises(activities)

\* lines 1081-1086 and 1156-1161: the text of a 200 reply, None otherwise
ResponseContent(http) == IF http.kind = "ok" THEN http.content ELSE None

\* a variant that lets the exception of the prompt or of the call escape
generate_itinerary_Raising(p, http) ==
    IF ItineraryPromptRaises(p) \/ http.kind \in {"raise", "malformed"}
    THEN [t |-> "raised"]
    ELSE ResponseContent(http)

\* lines 1040-1086
generate_itinerary(p, http) ==
    IF ItineraryPromptRaises(p) THEN None ELSE ResponseContent(http)

\* lines 1089-1161
generate_getaway(p, http) ==
    IF GetawayPromptRaises(p) THEN None ELSE ResponseContent(http)

-----------------------------------------------------------------------------
(* File naming, lines 1332-1360 *)

FilenamePartLimit == 30
FallbackGetawayDays == 5
FallbackTravelers == 2

Raised == [t |-> "raised"]

S_luxury == <<"l", "u", "x", "u", "r", "y">>

TwoDigits(n) == <<Digits[(n \div 10) + 1], Digits[(n % 10) + 1]>>

\* datetime.datetime.now().strftime("%Y%m%d-%H%M%S"), `now` seconds after
\* 2025-01-01 00:00:00, within the first hour
Timestamp(now) ==
    <<"2", "0", "2", "5", "0", "1", "0", "1", "-", "0", "0">> \o TwoDigits((now \div 60) % 60) \o TwoDigits(now % 60)

\* the getaway description, or Raised
GetawayDesc(p) ==
    LET activities == GetOr(p, "preferred_activities", JList(<<>>))
        climate == GetOr(p, "climate_preferences", JStr(<<>>))
        desc == IF Truthy(activities) /\ IsList(activities)
                THEN IF JoinRaises(JList(Take(activities.l, 2)))
                     THEN Raised
                     ELSE JStr(JoinStrs(<<"-">>, Take(activities.l, 2)))
                ELSE IF Truthy(climate) THEN climate
                ELSE IF Truthy(Get(p, "geography_scenery"))
                     THEN p["geography_scenery"]
                ELSE JStr(S_luxury)
    IN IF ~IsStr(desc) THEN Raised
       ELSE JStr(Take(Replace(desc.s, " ", "-"), FilenamePartLimit))

generate_filename(p, type, now) ==
    IF type = "getaway"
    THEN LET desc == GetawayDesc(p)
             travelers == GetOr(p, "family_size", JNum(FallbackTravelers))
             days == GetOr(p, "number_of_days", JNum(FallbackGetawayDays))
         IN IF desc = Raised THEN Raised
            ELSE JStr(<<"g", "e", "t", "a", "w", "a", "y", "-">> \o Format(days)
                      \o <<"d", "a", "y", "-">> \o Format(travelers)
                      \o <<"p", "p", "l", "-">> \o desc.s \o <<"-">> \o Timestamp(now)
                      \o <<".", "p", "d", "f">>)
    ELSE IF "destination" \notin DOMAIN p \/ JoinRaises(p["destination"])
         THEN Raised
         ELSE LET joined == IF IsStr(p["destination"])
                            THEN JoinStrs(<<"-">>,
                                   [i \in 1..Len(p["destination"].s) |->
                                       JStr(<<p["destination"].s[i]>>)])
                            ELSE JoinStrs(<<"-">>, p["destination"].l)
                  dest == Replace(Take(joined, FilenamePartLimit), " ", "-")
              IN JStr(<<"i", "t", "i", "n", "e", "r", "a", "r", "y", "-">> \o dest \o <<"-">>
                      \o Timestamp(now) \o <<".", "p", "d", "f">>)

-----------------------------------------------------------------------------
(* Document creation, lines 1164-1329: what chat() sees of it *)

STORAGE_DIR == <<"/", "t", "m", "p", "/", "t", "r", "a", "v", "e", "l", "-", "p", "d", "f", "s">>

\* the catalog's top-level keys in order, list(affiliate_links.keys())
AffiliateKeyList == <<<<"g", "e", "t", "a", "w", "a", "y", "s">>, <<"t", "o", "u", "r", "s">>>>

\* the region names of the catalog, the keys of affiliate_links["getaways"]
\* (lines 114-852), in order
GetawayRegions ==
    <<<<"A", "f", "r", "i", "c", "a">>,
      <<"A", "u", "s", "t", "r", "a", "l", "i", "a">>,
      <<"B", "a", "l", "i">>,
      <<"D", "u", "b", "a", "i">>,
      <<"F", "i", "j", "i">>,
      <<"E", "n", "g", "l", "a", "n", "d">>,
      <<"F", "r", "a", "n", "c", "e">>,
      <<"G", "r", "e", "e", "c", "e">>,
      <<"G", "e", "r", "m", "a", "n", "y">>,
      <<"I", "t", "a", "l", "y">>,
      <<"P", "o", "r", "t", "u", "g", "a", "l">>,
      <<"S", "p", "a", "i", "n">>,
      <<"M", "a", "l", "d", "i", "v", "e", "s">>,
      <<"T", "h", "a", "i", "l", "a", "n", "d">>,
      <<"J", "a", "p", "a", "n">>,
      <<"J", "a", "m", "a", "i", "c", "a">>,
      <<"C", "h", "i", "n", "a">>,
      <<"H", "o", "n", "g", " ", "K", "o", "n", "g">>,
      <<"N", "o", "r", "w", "a", "y">>,
      <<"S", "w", "i", "t", "z", "e", "r", "l", "a", "n", "d">>,
      <<"M", "e", "x", "i", "c", "o">>,
      <<"H", "a", "w", "a", "i", "i">>,
      <<"C", "a", "l", "i", "f", "o", "r", "n", "i", "a">>,
      <<"L", "a", "s", " ", "V", "e", "g", "a", "s">>,
      <<"N", "e", "w", " ", "O", "r", "l", "e", "a", "n", "s">>,
      <<"M", "i", "a", "m", "i">>>>

\* the catalog's top-level keys, affiliate_links.keys() (lines 113-864)
AffiliateKeys == {<<"g", "e", "t", "a", "w", "a", "y", "s">>, <<"t", "o", "u", "r", "s">>}

\* building the story raises before doc.build (lines 1178-1320)
CreatePdfRaises(text, p, type) ==
    \/ {"budget", "family_size"} \ DOMAIN p # {}
    \/ /\ type = "itinerary"
       /\ \/ {"destination", "number_of_days"} \ DOMAIN p # {}
          \/ JoinRaises(p["destination"])
    \/ /\ type # "itinerary"
       /\ LET climate == GetOr(p, "climate_preferences", JStr(<<>>))
              activities == GetOr(p, "preferred_activities", JList(<<>>))
          IN \/ Truthy(climate) /\ ~IsStr(climate)
             \/ /\ Truthy(activities) /\ IsList(activities)
                /\ JoinRaises(JList(Take(activities.l, 2)))
    \/ ~IsStr(text)
    \/ /\ type = "getaway"
       /\ \A k \in AffiliateKeys : ~Contains(text.s, k)
       /\ Truthy(Get(p, "destination"))
       /\ \/ ~IsList(p["destination"]) /\ ~IsStr(p["destination"])
          \/ /\ IsList(p["destination"])
             /\ \E i \in 1..Len(p["destination"].l) :
                    p["destination"].l[i].t \in {"list", "dict"}

\* `render` is what the rendering library does with the story: "built" or
\* "fails" (a paragraph it cannot parse, a sink it cannot open)
create_pdf(text, name, p, type, render) ==
    IF CreatePdfRaises(text, p, type) \/ render = "fails"
    THEN None
    ELSE JStr(STORAGE_DIR \o <<"/">> \o name.s)

-----------------------------------------------------------------------------
(* POST /api/chat, lines 1377-1432 *)

HTTP_OK == 200
HTTP_BAD_REQUEST == 400
HTTP_SERVER_ERROR == 500

\* the static capability description of lines 1403-1406 (its first words)
CapabilityText == JStr(<<"H", "i", "!", " ", "I", "'", "m", " ", "D", "a", "v", "e", " ", "f", "r", "o", "m", " ", "E", "c", "o", " ", "F", "r", "i", "e", "n", "d", "l", "y", " ", "L", "u", "x", "u", "r", "y", " ", "T", "r", "a", "v", "e", "l", "s", ".", " ", "I", " ", "c", "a", "n", ":">>)

Words == {<<"H", "e", "l", "l", "o">>, <<"E", "s", "c", "a", "p", "e">>, <<"T", "r", "i", "p", "s">>}

RECURSIVE JoinWords(_)
JoinWords(ws) ==
    IF Len(ws) = 0 THEN <<>>
    ELSE IF Len(ws) = 1 THEN ws[1]
    ELSE ws[1] \o <<" ">> \o JoinWords(Tail(ws))

MessageTexts == {JoinWords(ws) : ws \in SeqsUpTo(Words, MaxWords)}

\* what request.get_json() meets: no JSON body (get_json raises or returns
\* None, by Flask version), a JSON value that is no object, or an object
Requests ==
    {[kind |-> "not_json", get_json |-> g] : g \in {"raises", "returns None"}}
    \cup {[kind |-> "non_object"]}
    \cup {[kind |-> "object", data |-> <<>>]}
    \cup {[kind |-> "object", data |-> [message |-> m]] :
            m \in {JNull, JNum(0), JNum(5), JList(<<>>)}
                  \cup {JStr(x) : x \in MessageTexts}}

JsonError(status, text) == [status |-> status, body |-> [error |-> text]]

\* str(e) of whatever exception reached line 1429
ExceptionText == "str(e)"

\* what the model may return for a chat request
ChatObjects ==
    {MkObj([destination |-> d, preferred_activities |-> a,
            climate_preferences |-> c, geography_scenery |-> g]) :
        d \in {Absent, JList(<<JNum(5)>>)},
        a \in {Absent, JList(<<JStr(S_ski)>>), JList(<<JNum(5)>>)},
        c \in {Absent, JStr(S_warm), JList(<<JStr(S_warm)>>)},
        g \in {Absent, JNum(7)}}

ChatExtractionOutcomes ==
    {[kind |-> "raise"], [kind |-> "status", code |-> 500],
     [kind |-> "ok", text |-> <<"prose">>, obj |-> EmptyObject]}
    \cup {[kind |-> "ok", text |-> <<"object">>, obj |-> p] : p \in ChatObjects}

S_GeneratedText == <<"O", "p", "t", "i", "o", "n", " ", "1", ":", " ", "B", "a", "l", "i">>

GenerationOutcomes ==
    {[kind |-> "raise"], [kind |-> "status", code |-> 500], [kind |-> "malformed"]}
    \cup {[kind |-> "ok", content |-> c] :
            c \in {None, JStr(<<>>), JStr(S_GeneratedText)}}

Init ==
    /\ pc = "idle"
    /\ request = Unset /\ message = Unset /\ extraction = Unset
    /\ parameters = Unset /\ renormalized = Unset /\ doc_type = "unset"
    /\ generation = Unset
    /\ content = Unset /\ filename = Unset /\ pdf_path = Unset
    /\ reply = Unset /\ calls = <<>> /\ model_calls = 0 /\ documents = {}
    /\ LibIdle
    /\ MoreIdle

\* lines 1380-1385, and 1429-1432 when get_json or data.get raises
ChatReceive ==
    /\ pc = "idle"
    /\ \E req \in Requests :
        /\ request' = req
        /\ IF req.kind # "object"
           THEN /\ message' = Unset
                /\ reply' = JsonError(HTTP_SERVER_ERROR, ExceptionText)
                /\ pc' = "done"
           ELSE LET m == GetOr(req.data, "message", JStr(<<>>))
                IN /\ message' = m
                   /\ IF ~Truthy(m)
                      THEN /\ reply' = JsonError(HTTP_BAD_REQUEST, "Message required")
                           /\ pc' = "done"
                      ELSE /\ reply' = Unset
                           /\ pc' = "extract"
    /\ UNCHANGED <<extraction, parameters, renormalized, doc_type, generation,
                   content, filename, pdf_path, calls, model_calls, documents>>
    /\ UNCHANGED lib_vars
    /\ UNCHANGED more_vars

\* lines 1390-1408: the extraction call, message.lower() and the routing
ChatExtract ==
    /\ pc = "extract"
    /\ \E o \in ChatExtractionOutcomes :
        /\ extraction' = o
        /\ parameters' = extract_parameters(o)
    /\ calls' = Append(calls, "extract_parameters")
    /\ model_calls' = model_calls + 1
    /\ IF ~IsStr(message)
       THEN /\ reply' = JsonError(HTTP_SERVER_ERROR, ExceptionText)
            /\ doc_type' = doc_type
            /\ pc' = "done"
       ELSE LET intent == route(Lower(message.s))
            IN IF intent = "unknown"
               THEN /\ reply' = [status |-> HTTP_OK,
                                 body |-> [response |-> CapabilityText,
                                           parameters |-> parameters']]
                    /\ doc_type' = doc_type
                    /\ pc' = "done"
               ELSE /\ reply' = Unset
                    /\ doc_type' = intent
                    /\ pc' = "generate"
    /\ UNCHANGED <<request, message, renormalized, generation, content, filename,
                   pdf_path, documents>>
    /\ UNCHANGED lib_vars
    /\ UNCHANGED more_vars

\* a variant that goes on to the document whatever the generator returned
ContentAccepted_Always(text) == TRUE

\* line 1410: `if not content` ends the request with the 500 reply
ContentAccepted(text) == Truthy(text)

\* lines 1396/1399 and 1410-1414: the generation call, the test of its result
\* and generate_filename
ChatGenerate ==
    /\ pc = "generate"
    /\ \E http \in GenerationOutcomes, now \in 0..MaxTime :
        LET text == IF doc_type = "getaway"
                    THEN generate_getaway(parameters, http)
                    ELSE generate_itinerary(parameters, http)
            posted == IF doc_type = "getaway"
                      THEN ~GetawayPromptRaises(parameters)
                      ELSE ~ItineraryPromptRaises(parameters)
            name == generate_filename(parameters, doc_type, now)
            generator == IF doc_type = "getaway"
                         THEN "generate_getaway" ELSE "generate_itinerary"
        IN /\ generation' = http
           /\ content' = text
           /\ model_calls' = model_calls + (IF posted THEN 1 ELSE 0)
           /\ IF text = Raised
              THEN /\ calls' = Append(calls, generator)
                   /\ reply' = JsonError(HTTP_SERVER_ERROR, ExceptionText)
                   /\ filename' = filename
                   /\ pc' = "done"
              ELSE IF ~ContentAccepted(text)
              THEN /\ calls' = Append(calls, generator)
                   /\ reply' = JsonError(HTTP_SERVER_ERROR,
                                         "Failed to generate content")
                   /\ filename' = filename
                   /\ pc' = "done"
              ELSE /\ calls' = calls \o <<generator, "generate_filename">>
                   /\ IF name = Raised
                      THEN /\ reply' = JsonError(HTTP_SERVER_ERROR, ExceptionText)
                           /\ filename' = filename
                           /\ pc' = "done"
                      ELSE /\ reply' = Unset
                           /\ filename' = name
                           /\ pc' = "create_pdf"
    /\ UNCHANGED <<request, message, extraction, parameters, renormalized,
                   doc_type, pdf_path, documents>>
    /\ UNCHANGED lib_vars
    /\ affiliate_destinations' =
           IF doc_type = "getaway" /\ ~GetawayPromptRaises(parameters)
           THEN AffiliateKeyList ELSE affiliate_destinations
    /\ UNCHANGED <<destination_links, cache, threads, line_error, upload_response>>

\* lines 1415-1427: create_pdf and the reply
ChatCreatePdf ==
    /\ pc = "create_pdf"
    /\ \E render \in {"built", "fails"} :
        LET path == create_pdf(content, filename, parameters, doc_type, render)
            base == [response |-> content, parameters |-> parameters,
                     intent |-> doc_type]
        IN /\ pdf_path' = path
           /\ calls' = Append(calls, "create_pdf")
           /\ IF path = Raised
              THEN /\ documents' = documents
                   /\ reply' = JsonError(HTTP_SERVER_ERROR, ExceptionText)
              ELSE IF Truthy(path)
              THEN /\ documents' = documents \cup {filename}
                   /\ reply' = [status |-> HTTP_OK,
                                body |-> [response |-> content,
                                          parameters |-> parameters,
                                          intent |-> doc_type,
                                          pdf_url |-> JStr(<<"/", "d", "o", "w", "n", "l", "o", "a", "d", "/">> \o filename.s),
                                          pdf_filename |-> filename]]
              ELSE /\ documents' = documents
                   /\ reply' = [status |-> HTTP_OK, body |-> base]
    /\ pc' = "done"
    /\ UNCHANGED <<request, message, extraction, parameters, renormalized,
                   doc_type, generation, content, filename, model_calls>>
    /\ UNCHANGED lib_vars
    /\ UNCHANGED more_vars

Next == ChatReceive \/ ChatExtract \/ ChatGenerate \/ ChatCreatePdf

Spec == Init /\ [][Next]_vars

\* how often chat() called one of the named functions
CallCount(names) == Cardinality({i \in 1..Len(calls) : calls[i] \in names})

Generators == {"generate_getaway", "generate_itinerary"}

\* C29: a request with a non-empty message makes exactly one extraction
\* call, before anything else (also when the message holds no intent
\* keyword); at most one generation call follows; generate_filename and
\* create_pdf run only after a generation call that returned non-empty
\* text; and the request makes at most two model calls.
C29_CallOrder ==
    /\ (pc \in {"generate", "create_pdf", "done"}
        /\ message # Unset /\ Truthy(message)) =>
           /\ CallCount({"extract_parameters"}) = 1
           /\ calls[1] = "extract_parameters"
    /\ CallCount(Generators) <= 1
    /\ \A i \in 1..Len(calls) :
           calls[i] \in {"generate_filename", "create_pdf"} =>
              /\ \E k \in 1..(i - 1) : calls[k] \in Generators
              /\ content # Raised /\ IsStr(content) /\ Len(content.s) > 0
    /\ model_calls <= 2

\* a getaway request that went through all four steps with two model calls
C29_Witness ==
    /\ pc = "done" /\ model_calls = 2 /\ Truthy(message)
    /\ calls = <<"extract_parameters", "generate_getaway", "generate_filename",
                 "create_pdf">>

\* C26: the closed destination list that generate_getaway puts into its
\* prompt is exactly the set of the catalog's region names.
C26_PromptListsRegions ==
    (affiliate_destinations # Unset) =>
        {affiliate_destinations[i] : i \in 1..Len(affiliate_destinations)}
          = {GetawayRegions[i] : i \in 1..Len(GetawayRegions)}

-----------------------------------------------------------------------------
(* Claims about the extractor, checked under SpecExtract *)

Returned == pc \in {"x_returned", "x_renormalized"}

\* C3: extract_parameters returns, for every outcome of the model call
\* (network error, non-200, no JSON, invalid JSON, any parsed object), a
\* record whose destination is a non-empty list.
C3_DestinationNonEmptyList ==
    Returned =>
        /\ "destination" \in DOMAIN parameters
        /\ IsList(parameters["destination"])
        /\ Len(parameters["destination"].l) > 0

\* the model returned only null and empty destinations, and the fallback applied
C3_Witness ==
    /\ pc = "x_returned"
    /\ extraction.kind = "ok"
    /\ extraction.text = <<"object">>
    /\ Get(extraction.obj, "destination") = JList(<<JNull, JStr(<<>>)>>)
    /\ parameters["destination"] = JList(<<JStr(S_Paris)>>)

PositiveInteger(v) == IsNum(v) /\ v.n > 0

\* C4: every record returned by extract_parameters has number_of_days and
\* family_size that are positive integers, whatever the model returned.
C4_PositiveDaysAndSize ==
    Returned =>
        /\ PositiveInteger(Get(parameters, "number_of_days"))
        /\ PositiveInteger(Get(parameters, "family_size"))

\* the reply of the model holds no valid JSON object at all
NoJsonObject(o) ==
    o.kind = "ok" /\ \A i \in 1..Len(o.text) : o.text[i] # "object"

\* C5: when the extraction call fails (exception, non-200 status, malformed
\* body, reply without a JSON object, JSON that does not parse),
\* extract_parameters returns exactly the fixed default record.
C5_DefaultOnFailure ==
    (Returned /\ (extraction.kind \in {"raise", "status", "malformed"}
                    \/ NoJsonObject(extraction)))
    => parameters =
         [destination |-> JList(<<JStr(<<"P", "a", "r", "i", "s">>)>>),
          number_of_days |-> JNum(7),
          budget |-> JStr(<<"$", "5", "0", "0", "0">>),
          preferred_activities |-> JNull,
          family_size |-> JNum(2),
          ages |-> JNull,
          travel_dates |-> JNull,
          climate_preferences |-> JNull,
          geography_scenery |-> JNull]

\* the reply was prose followed by braces that do not parse
C5_Witness ==
    /\ pc = "x_returned"
    /\ extraction.kind = "ok"
    /\ extraction.text = <<"prose", "badobject">>
    /\ parameters["number_of_days"] = JNum(7)
    /\ parameters["ages"] = JNull

\* C6: normalize_parameters is idempotent: applied to a record it returned
\* (and to the fixed default record) it gives that same record.
C6_NormalizeIdempotent ==
    pc = "x_renormalized" => renormalized = parameters

\* a scalar destination was wrapped by the first normalisation, and the
\* second one left the one-element list alone
C6_Witness ==
    /\ pc = "x_renormalized"
    /\ extraction.kind = "ok"
    /\ extraction.text = <<"object">>
    /\ Get(extraction.obj, "destination") = JStr(S_Rome)
    /\ "number_of_days" \notin DOMAIN extraction.obj
    /\ renormalized["destination"] = JList(<<JStr(S_Rome)>>)
    /\ renormalized["number_of_days"] = JNum(7)

ListFields == {"destination", "preferred_activities", "ages"}

\* C7: after normalisation every list-typed field that is present
\* (destination, preferred_activities, ages) is a list.
C7_ListFieldsAreLists ==
    Returned =>
        \A k \in ListFields :
            (k \in DOMAIN parameters /\ parameters[k] # None)
            => IsList(parameters[k])

-----------------------------------------------------------------------------
(* Claims about POST /api/chat, checked under Spec *)

Called(f) == \E i \in 1..Len(calls) : calls[i] = f

HasGetawayKeyword(m) ==
    IsStr(m) /\ \E w \in GetawayKeywords : Contains(Lower(m.s), w)
HasItineraryKeyword(m) ==
    IsStr(m) /\ \E w \in ItineraryKeywords : Contains(Lower(m.s), w)

\* C1 as stated: for every message whose lower-cased text contains a getaway
\* keyword and an itinerary keyword, generate_getaway is called,
\* generate_itinerary is not, and the returned intent is "getaway".
C1_GetawayIntentReturned ==
    (pc = "done" /\ HasGetawayKeyword(message) /\ HasItineraryKeyword(message))
    => /\ Called("generate_getaway")
       /\ ~Called("generate_itinerary")
       /\ "intent" \in DOMAIN reply.body
       /\ reply.body["intent"] = "getaway"

\* C1 amended: for such a message generate_getaway is called exactly once,
\* generate_itinerary is never called, and a reply that is not an error
\* reply carries the intent "getaway".
C1_GetawayPriority ==
    (pc = "done" /\ HasGetawayKeyword(message) /\ HasItineraryKeyword(message))
    => /\ Cardinality({i \in 1..Len(calls) : calls[i] = "generate_getaway"}) = 1
       /\ ~Called("generate_itinerary")
       /\ doc_type = "getaway"
       /\ reply.status = 200 =>
             "intent" \in DOMAIN reply.body /\ reply.body["intent"] = "getaway"

\* the itinerary keyword comes first in the text, the reply is a getaway
C1_Witness ==
    /\ pc = "done"
    /\ message = JStr(JoinWords(<<<<"T", "r", "i", "p", "s">>,
                                  <<"E", "s", "c", "a", "p", "e">>>>))
    /\ reply.status = 200
    /\ reply.body["intent"] = "getaway"
    /\ Called("generate_getaway")

\* C2: a non-empty message without any intent keyword makes no generation
\* call, creates no document, and is answered with status 200 and the
\* static capability text.
C2_UnknownIntentNoGeneration ==
    (/\ pc = "done"
     /\ IsStr(message) /\ Truthy(message)
     /\ ~HasGetawayKeyword(message) /\ ~HasItineraryKeyword(message))
    => /\ ~Called("generate_getaway") /\ ~Called("generate_itinerary")
       /\ ~Called("create_pdf") /\ documents = {}
       /\ model_calls = 1
       /\ reply.status = 200
       /\ "response" \in DOMAIN reply.body
       /\ reply.body["response"] = CapabilityText

C2_Witness ==
    /\ pc = "done"
    /\ message = JStr(JoinWords(<<<<"H", "e", "l", "l", "o">>,
                                  <<"H", "e", "l", "l", "o">>>>))
    /\ calls = <<"extract_parameters">>
    /\ reply.status = 200
    /\ reply.body["response"] = CapabilityText

\* the generation call failed: the request raised, the status was not 200,
\* the body was malformed, or building the prompt raised
GenerationFailed ==
    /\ generation # Unset
    /\ \/ generation.kind \in {"raise", "status", "malformed"}
       \/ doc_type = "itinerary" /\ ItineraryPromptRaises(parameters)
       \/ doc_type = "getaway" /\ GetawayPromptRaises(parameters)

\* C8: when a generation call fails, the generator returns None instead of
\* raising, and chat answers 500 with an error field, creates no document
\* and substitutes no content.
C8_GenerationFailureIs500 ==
    (pc = "done" /\ GenerationFailed)
    => /\ content = None
       /\ reply.status = 500
       /\ DOMAIN reply.body = {"error"}
       /\ reply.body["error"] = "Failed to generate content"
       /\ ~Called("generate_filename") /\ ~Called("create_pdf")
       /\ documents = {}

\* the itinerary model call timed out
C8_Witness ==
    /\ pc = "done"
    /\ doc_type = "itinerary"
    /\ generation.kind = "raise"
    /\ content = None
    /\ reply.status = 500

\* C9: when a generation call returned non-empty text, the reply carries
\* that text in the response field with the parameters, whatever happens in
\* generate_filename and create_pdf; a failure there only removes pdf_url
\* and pdf_filename.
C9_TextAlwaysReturned ==
    (pc = "done" /\ IsStr(content) /\ Truthy(content))
    => /\ reply.status = 200
       /\ {"response", "parameters"} \subseteq DOMAIN reply.body
       /\ reply.body["response"] = content
       /\ reply.body["parameters"] = parameters

NoUsableMessage ==
    \/ request.kind = "not_json"
    \/ request.kind = "object" /\ "message" \notin DOMAIN request.data
    \/ request.kind = "object" /\ "message" \in DOMAIN request.data
          /\ request.data["message"] = JStr(<<>>)

\* C10: a POST without a usable message (no JSON body, no message key, an
\* empty message) is answered with status 400 and makes no model call.
C10_MissingMessageIs400 ==
    (pc = "done" /\ NoUsableMessage)
    => reply.status = 400 /\ model_calls = 0

-----------------------------------------------------------------------------
(* Luxury_Travel_Bot_old.py: the affiliate catalog and the destination     *)
(* resolver.  SpecOld starts when initialize_affiliate_links() has run at  *)
(* import (line 1011), goes through the rest of the import, and then       *)
(* serves calls of the resolver.                                           *)

MaxTextWords == 3    \* words in a generated text handed to the resolver

S_Bali == <<"B", "a", "l", "i">>
S_bali == <<"b", "a", "l", "i">>
S_London == <<"L", "o", "n", "d", "o", "n">>
S_Serengeti == <<"S", "e", "r", "e", "n", "g", "e", "t", "i">>
S_NewPlace == <<"N", "e", "w", " ", "P", "l", "a", "c", "e">>

Entry(d, h, l) == [destination |-> d, hotel |-> h, link |-> l]

\* what initialize_affiliate_links() assigns: "getaways" maps region names,
\* in insertion order, to lists of entries; a display name may be listed
\* under several hotels; the "tours" key inside "getaways" holds a dict
LoadedCatalog ==
    [getaways |-> <<
        [region |-> "Africa", destinations |-> JList(<<
            Entry(S_Serengeti, "Four Seasons Safari Lodge Serengeti",
                  "https://luxuryescapes.sjv.io/Dyy11y")>>)],
        [region |-> "Bali", destinations |-> JList(<<
            Entry(S_Bali, "Akashi Residence", "https://luxuryescapes.sjv.io/POOY6Q"),
            Entry(S_Bali, "Bvlgari Resort Bali", "https://luxuryescapes.sjv.io/raae2v")>>)],
        [region |-> "England", destinations |-> JList(<<
            Entry(S_London, "Kinnerton Street", "https://luxuryescapes.sjv.io/gOOLZ5"),
            Entry(S_London, "Corinthia London", "https://luxuryescapes.sjv.io/099XL3")>>)],
        [region |-> "tours", destinations |-> JDict]>>]

\* add_destination(): appends a placeholder entry to the "Africa" region
add_destination(catalog) ==
    IF \E i \in 1..Len(catalog.getaways) : catalog.getaways[i].region = "Africa"
    THEN [getaways |->
            [i \in 1..Len(catalog.getaways) |->
                IF catalog.getaways[i].region = "Africa"
                THEN [region |-> "Africa",
                      destinations |->
                          JList(Append(catalog.getaways[i].destinations.l,
                                       Entry(S_NewPlace, "New Hotel",
                                             "https://example.com")))]
                ELSE catalog.getaways[i]]]
    ELSE catalog

RECURSIVE Flatten(_)
\* the concatenation of a sequence of sequences
Flatten(ss) == IF Len(ss) = 0 THEN <<>> ELSE Head(ss) \o Flatten(Tail(ss))

RECURSIVE SelectInOrder(_, _)
\* the elements l[i] with keep[i] true, in the order of l
SelectInOrder(l, keep) ==
    IF Len(l) = 0 THEN <<>>
    ELSE (IF Head(keep) THEN <<Head(l)>> ELSE <<>>)
         \o SelectInOrder(Tail(l), Tail(keep))

\* the (destination, link) pairs of one region: none of a region that is no
\* list, and none of an entry lacking "destination" or "link"
RegionPairs(r) ==
    IF ~IsList(r.destinations) THEN <<>>
    ELSE LET l == r.destinations.l
             valid == [i \in 1..Len(l) |-> {"destination", "link"} \subseteq DOMAIN l[i]]
             kept == SelectInOrder(l, valid)
         IN  [i \in 1..Len(kept) |-> <<kept[i].destination, kept[i].link>>]

extract_destinations_with_links(catalog) ==
    Flatten([i \in 1..Len(catalog.getaways) |-> RegionPairs(catalog.getaways[i])])

\* Paragraph(text, style): with a ParagraphStyle it is built; with style None
\* reportlab releases differ, the older ones read the attributes of the style
\* and raise AttributeError, the newer ones substitute a default style
ParagraphOutcomes(style) ==
    IF style = "ParagraphStyle" THEN {"built"} ELSE {"built", "raises"}

\* the flowables appended to the story for the matched pairs
LinkFlowables(matched) ==
    Flatten([i \in 1..Len(matched) |->
                <<[kind |-> "Paragraph", href |-> matched[i][2], text |-> matched[i][1]],
                  [kind |-> "Spacer"]>>])

\* select_destination_with_affiliate_links(response_text, link_style, story)
\* with the global catalog and what building a Paragraph does: the value
\* returned and the story afterwards
select_destination_with_affiliate_links(catalog, text, paragraph, story0) ==
    LET pairs == extract_destinations_with_links(catalog)
        hit == [i \in 1..Len(pairs) |-> Contains(text, pairs[i][1])]
        matched == SelectInOrder(pairs, hit)
    IN  IF Len(pairs) = 0 \/ Len(matched) = 0
        THEN [value |-> JList(<<>>), story |-> story0]
        ELSE IF paragraph = "raises"
        THEN [value |-> None, story |-> story0]
        ELSE [value |-> JList(matched), story |-> story0 \o LinkFlowables(matched)]

TextWords == {S_Bali, S_bali, S_London, S_NewPlace, <<"T", "r", "i", "p", "s">>}

ResponseTexts == {JoinWords(ws) : ws \in SeqsUpTo(TextWords, MaxTextWords)} \ {<<>>}

InitOld ==
    /\ pc = "o_import"
    /\ request = Unset /\ message = Unset /\ extraction = Unset
    /\ parameters = Unset /\ renormalized = Unset /\ doc_type = "unset"
    /\ generation = Unset
    /\ content = Unset /\ filename = Unset /\ pdf_path = Unset
    /\ reply = Unset /\ calls = <<>> /\ model_calls = 0 /\ documents = {}
    /\ affiliate_links = LoadedCatalog
    /\ response_text = Unset /\ link_style = Unset
    /\ story = Unset /\ matched_destinations = Unset /\ banner_files = Unset
    /\ stored = <<>> /\ clock = 0
    /\ MoreIdle

\* line 1048: the module calls add_destination() while it is imported
ImportAddDestination ==
    /\ pc = "o_import"
    /\ affiliate_links' = add_destination(affiliate_links)
    /\ pc' = "o_serving"
    /\ UNCHANGED <<chat_vars, response_text, link_style, story, matched_destinations,
                   banner_files, stored, clock>>
    /\ UNCHANGED more_vars

\* one call of the resolver with an empty story, as the handlers (with the
\* module's link_style) and the integration test (with None) make it
Resolve ==
    /\ pc = "o_serving"
    /\ pc' = "o_resolved"
    /\ \E text \in ResponseTexts, style \in {"ParagraphStyle", "None"} :
         \E paragraph \in ParagraphOutcomes(style) :
            LET r == select_destination_with_affiliate_links(
                         affiliate_links, text, paragraph, <<>>)
            IN  /\ response_text' = text
                /\ link_style' = style
                /\ matched_destinations' = r.value
                /\ story' = r.story
    /\ UNCHANGED <<chat_vars, affiliate_links, banner_files, stored, clock>>
    /\ UNCHANGED more_vars


RECURSIVE DictFromPairs(_, _)
\* lines 2577-2581: destination_links[dest] = link for every item in turn; a
\* dict keeps a key at the place of its first insertion and holds the value
\* assigned last
DictFromPairs(d, items) ==
    IF Len(items) = 0 THEN d
    ELSE LET dest == Head(items)[1]
             link == Head(items)[2]
             seen == \E k \in 1..Len(d) : d[k][1] = dest
         IN  DictFromPairs(
                 IF seen
                 THEN [k \in 1..Len(d) |-> IF d[k][1] = dest THEN <<dest, link>> ELSE d[k]]
                 ELSE Append(d, <<dest, link>>),
                 Tail(items))

\* format_getaway_results(parsed_destinations, response_text), lines
\* 2567-2612: the link map it annotates the lines and builds the quick
\* links from; None when parsed_destinations is falsy and it returns the
\* text as it is
format_getaway_links(parsed_destinations) ==
    IF ~Truthy(parsed_destinations) THEN None
    ELSE JList(DictFromPairs(<<>>, parsed_destinations.l))

\* the handler formats the text with what the resolver returned (lines
\* 2411-2419)
FormatGetawayResults ==
    /\ pc = "o_resolved"
    /\ pc' = "o_formatted"
    /\ destination_links' = format_getaway_links(matched_destinations)
    /\ UNCHANGED <<chat_vars, lib_vars, affiliate_destinations, cache, threads, line_error,
                   upload_response>>

-----------------------------------------------------------------------------
(* Claims about the catalog and the destination resolver, checked under    *)
(* SpecOld                                                                 *)

Resolved == pc = "o_resolved"

\* the display names of the entries of a catalog
DisplayNames(catalog) ==
    UNION {{r.destinations.l[i].destination : i \in 1..Len(r.destinations.l)} :
              r \in {catalog.getaways[k] : k \in {k \in 1..Len(catalog.getaways) :
                                                     IsList(catalog.getaways[k].destinations)}}}

\* C11: the list returned by the resolver holds at most one entry per
\* display name, also for a name the catalog lists under several hotels.
C11_OneEntryPerName ==
    (Resolved /\ IsList(matched_destinations)) =>
        \A i, j \in 1..Len(matched_destinations.l) :
            i # j => matched_destinations.l[i][1] # matched_destinations.l[j][1]

C19_CatalogNeverModified == [][affiliate_links' = affiliate_links]_vars

\* the position of the first occurrence of a name in a text, 0 if none
FirstPos(text, name) ==
    LET at == {k \in 1..(Len(text) - Len(name) + 1) :
                  SubSeq(text, k, k + Len(name) - 1) = name}
    IN  IF at = {} THEN 0 ELSE CHOOSE k \in at : \A m \in at : k <= m

\* C21: the entries of the resolved list are ordered by the position at
\* which each display name first appears in the text: a name that first
\* occurs earlier in the text never comes later in the list.
C21_TextOrder ==
    (Resolved /\ IsList(matched_destinations)) =>
        \A i, j \in 1..Len(matched_destinations.l) :
            i < j => FirstPos(response_text, matched_destinations.l[i][1])
                     <= FirstPos(response_text, matched_destinations.l[j][1])

\* the link of the first catalog entry, in iteration order, with a name
FirstCatalogLink(catalog, name) ==
    LET pairs == extract_destinations_with_links(catalog)
        k == CHOOSE k \in 1..Len(pairs) :
                 /\ pairs[k][1] = name
                 /\ \A m \in 1..(k - 1) : pairs[m][1] # name
    IN  pairs[k][2]

\* C22: the link map of format_getaway_results keeps, for every display
\* name, the booking link of the first catalog entry with that name.
C22_FirstLinkKept ==
    (pc = "o_formatted" /\ IsList(destination_links)) =>
        \A k \in 1..Len(destination_links.l) :
            destination_links.l[k][2]
              = FirstCatalogLink(affiliate_links, destination_links.l[k][1])

-----------------------------------------------------------------------------
(* Document assembly: create_pdf, lines 1164-1329, as the story (the list  *)
(* of flowables) it hands to the rendering library                         *)

MaxPieces == 5       \* pieces a generated text is put together from
BannerSlots == 3     \* line 1252: banner_idx < 3

Whitespace == {" ", "\n", "\t"}

RECURSIVE LStrip(_)
LStrip(s) == IF Len(s) > 0 /\ Head(s) \in Whitespace THEN LStrip(Tail(s)) ELSE s

RECURSIVE RStrip(_)
RStrip(s) ==
    IF Len(s) > 0 /\ s[Len(s)] \in Whitespace THEN RStrip(SubSeq(s, 1, Len(s) - 1)) ELSE s

\* s.strip()
Strip(s) == RStrip(LStrip(s))

\* s.startswith(w)
StartsWith(s, w) == Len(s) >= Len(w) /\ SubSeq(s, 1, Len(w)) = w

\* s[n:]
Drop(s, n) == SubSeq(s, n + 1, Len(s))

RECURSIVE Split(_, _)
\* s.split(c) for a one-character separator c
Split(s, c) ==
    IF \E i \in 1..Len(s) : s[i] = c
    THEN LET i == CHOOSE i \in 1..Len(s) : s[i] = c /\ \A j \in 1..(i - 1) : s[j] # c
         IN  <<Take(s, i - 1)>> \o Split(Drop(s, i), c)
    ELSE <<s>>

\* the number of characters at the start of s that satisfy the set cs
RunLength(s, cs) ==
    CHOOSE k \in 0..Len(s) :
        /\ \A j \in 1..k : s[j] \in cs
        /\ k < Len(s) => s[k + 1] \notin cs

S_Option == <<"O", "p", "t", "i", "o", "n">>

\* the length of the match of the pattern  Option \d+:  at the start of s,
\* 0 if there is none
MatchOptionMarker(s) ==
    LET k == RunLength(Drop(s, Len(S_Option) + 1), {Digits[i] : i \in 1..Len(Digits)})
        n == Len(S_Option) + 1 + k
    IN  IF /\ StartsWith(s, S_Option \o <<" ">>)
           /\ k >= 1
           /\ Len(s) > n /\ s[n + 1] = ":"
        THEN n + 1 ELSE 0

RECURSIVE re_split_options(_)
\* re.split(r'(Option \d+:)', s): the texts between the markers, with the
\* markers themselves at the even positions
re_split_options(s) ==
    IF \E i \in 1..Len(s) : MatchOptionMarker(Drop(s, i - 1)) > 0
    THEN LET i == CHOOSE i \in 1..Len(s) :
                      /\ MatchOptionMarker(Drop(s, i - 1)) > 0
                      /\ \A j \in 1..(i - 1) : MatchOptionMarker(Drop(s, j - 1)) = 0
             m == MatchOptionMarker(Drop(s, i - 1))
         IN  <<Take(s, i - 1), SubSeq(s, i, i + m - 1)>>
             \o re_split_options(Drop(s, i + m - 1))
    ELSE <<s>>

\* text.replace('&', '&amp;').replace('<', '&lt;').replace('>', '&gt;')
EscapeMarkup(s) ==
    Flatten([i \in 1..Len(s) |->
        CASE s[i] = "&" -> <<"&", "a", "m", "p", ";">>
          [] s[i] = "<" -> <<"&", "l", "t", ";">>
          [] s[i] = ">" -> <<"&", "g", "t", ";">>
          [] OTHER -> <<s[i]>>])

\* the length of the match of  \*\*([^*]+)\*\*  at the start of s, 0 if none
MatchBold(s) ==
    LET k == RunLength(Drop(s, 2), {s[j] : j \in 1..Len(s)} \ {"*"})
    IN  IF /\ StartsWith(s, <<"*", "*">>)
           /\ k >= 1
           /\ StartsWith(Drop(s, 2 + k), <<"*", "*">>)
        THEN k + 4 ELSE 0

RECURSIVE BoldToMarkup(_)
\* re.sub(r'\*\*([^*]+)\*\*', r'<b>\1</b>', s)
BoldToMarkup(s) ==
    IF \E i \in 1..Len(s) : MatchBold(Drop(s, i - 1)) > 0
    THEN LET i == CHOOSE i \in 1..Len(s) :
                      /\ MatchBold(Drop(s, i - 1)) > 0
                      /\ \A j \in 1..(i - 1) : MatchBold(Drop(s, j - 1)) = 0
             m == MatchBold(Drop(s, i - 1))
         IN  Take(s, i - 1) \o <<"<", "b", ">">> \o SubSeq(s, i + 2, i + m - 3)
             \o <<"<", "/", "b", ">">> \o BoldToMarkup(Drop(s, i + m - 1))
    ELSE s

\* lines 905-919
clean_text_for_pdf(text) ==
    IF Len(text) = 0 THEN <<>> ELSE Strip(BoldToMarkup(EscapeMarkup(text)))

\* flowables: a Paragraph of the generated text with its style, a Spacer,
\* a banner Image with the link Paragraph under it, a header Paragraph
\* (brand, title, subtitle, trip details: their texts are left out), the
\* "Booking Links:" heading and a booking-link Paragraph
Para(text, style) == [kind |-> "Paragraph", text |-> text, style |-> style]
Spacer(h) == [kind |-> "Spacer", height |-> h]
Header(role, style) == [kind |-> "Header", role |-> role, style |-> style]
BookingHeading == [kind |-> "BookingHeading", style |-> "section_title_style"]
BookingLink(dest) == [kind |-> "BookingLink", dest |-> dest, style |-> "BookingLink"]

\* lines 1183-1194 and 1254-1266: the banner BANNER_ADS[i] when
\* load_local_image found its file (`images` holds the indices of the
\* banner files that exist), nothing otherwise
BannerBlocks(i, images, gap, after) ==
    IF i \in images
    THEN <<[kind |-> "Image", banner |-> i], Spacer(gap),
           [kind |-> "BannerLink", banner |-> i], Spacer(after)>>
    ELSE <<>>

\* lines 1233-1248 and 1272-1283: the Paragraph of one non-blank line;
\* a line that starts with one of `heads` is made bold and gets the
\* section title style
LineBlocks(line, heads) ==
    IF Strip(line) = <<>> THEN <<>>
    ELSE LET line_clean == clean_text_for_pdf(line)
         IN  IF \E h \in heads : StartsWith(Strip(line), h)
             THEN <<Para(IF Contains(line_clean, <<"<", "b", ">">>) THEN line_clean
                         ELSE <<"<", "b", ">">> \o line_clean \o <<"<", "/", "b", ">">>,
                         "section_title_style"),
                    Spacer("0.08")>>
             ELSE <<Para(line_clean, "normal_style"), Spacer("0.08")>>

TextBlocks(text, heads) ==
    LET lines == Split(text, "\n")
    IN  Flatten([i \in 1..Len(lines) |-> LineBlocks(lines[i], heads)])

RECURSIVE GetawaySections_NoCap(_, _, _)
GetawaySections_NoCap(sections, banner_idx, images) ==
    IF Len(sections) = 0 THEN <<>>
    ELSE LET section == Head(sections)
             nonblank == Strip(section) # <<>>
             slot == nonblank /\ Contains(section, S_Option)
         IN  (IF nonblank THEN TextBlocks(section, {S_Option}) ELSE <<>>)
             \o (IF slot
                 THEN <<Spacer("0.2")>>
                      \o BannerBlocks(banner_idx % BannerSlots, images, "0.05", "0.3")
                 ELSE <<>>)
             \o GetawaySections_NoCap(Tail(sections),
                                      IF slot THEN banner_idx + 1 ELSE banner_idx, images)

RECURSIVE GetawaySections(_, _, _)
\* lines 1231-1267: the sections of the text in order, each non-blank one
\* followed by a banner slot when it contains the word Option and fewer
\* than three slots were used
GetawaySections(sections, banner_idx, images) ==
    IF Len(sections) = 0 THEN <<>>
    ELSE LET section == Head(sections)
             nonblank == Strip(section) # <<>>
             slot == nonblank /\ Contains(section, S_Option) /\ banner_idx < BannerSlots
         IN  (IF nonblank THEN TextBlocks(section, {S_Option}) ELSE <<>>)
             \o (IF slot
                 THEN <<Spacer("0.2")>>
                      \o BannerBlocks(banner_idx % BannerSlots, images, "0.05", "0.3")
                 ELSE <<>>)
             \o GetawaySections(Tail(sections),
                                IF slot THEN banner_idx + 1 ELSE banner_idx, images)

S_Day == <<"D", "a", "y", " ">>
S_BoldDay == <<"*", "*", "D", "a", "y", " ">>

\* lines 1290-1305: the destinations whose links are looked up
destinations_to_link(text, p, type) ==
    IF type = "getaway"
    THEN LET found == SelectInOrder(AffiliateKeyList,
                          [i \in 1..Len(AffiliateKeyList) |-> Contains(text, AffiliateKeyList[i])])
         IN  IF Len(found) > 0 THEN found
             ELSE IF Truthy(Get(p, "destination")) THEN
                  (IF IsStr(p["destination"])
                   THEN [i \in 1..Len(p["destination"].s) |-> <<p["destination"].s[i]>>]
                   ELSE [i \in 1..Len(p["destination"].l) |-> Format(p["destination"].l[i])])
             ELSE <<>>
    ELSE IF IsStr(p["destination"])
         THEN [i \in 1..Len(p["destination"].s) |-> <<p["destination"].s[i]>>]
         ELSE [i \in 1..Len(p["destination"].l) |-> p["destination"].l[i].s]

\* lines 1285-1320: the booking-links section
BookingSection(text, p, type) ==
    LET dests == destinations_to_link(text, p, type)
        linked == SelectInOrder(dests, [i \in 1..Len(dests) |-> dests[i] \in AffiliateKeys])
    IN  <<Spacer("0.3"), BookingHeading, Spacer("0.1")>>
        \o Flatten([i \in 1..Len(linked) |-> <<BookingLink(linked[i]), Spacer("0.08")>>])

\* the story create_pdf hands to doc.build, for arguments with which
\* building it does not raise
pdf_story(text, p, type, images) ==
    <<Header("brand", "title_style"), Spacer("0.1")>>
    \o (IF type = "itinerary" THEN BannerBlocks(0, images, "0.1", "0.3") ELSE <<>>)
    \o <<Header("doc_title", "subtitle_style"),
         Header("doc_subtitle", "section_title_style"), Spacer("0.2"),
         Header("details", "normal_style"), Spacer("0.3")>>
    \o (IF type = "getaway"
        THEN GetawaySections(re_split_options(text), 0, images)
        ELSE TextBlocks(text, {S_Day, S_BoldDay}))
    \o BookingSection(text, p, type)

\* generated texts: getaway texts with "Option N:" markers, plain lines and
\* a line that holds the word Option and a catalog key without a marker;
\* itinerary texts with a day header, a dash line with a cost label and a
\* line that starts with "Day " without a number
GetawayPieces ==
    {<<"O", "p", "t", "i", "o", "n", " ", "1", ":", " ", "B", "a", "l", "i", "\n">>,
     <<"S", "p", "a", " ", "d", "a", "y", "\n">>,
     <<"O", "p", "t", "i", "o", "n", "a", "l", " ", "t", "o", "u", "r", "s", "\n">>}

ItineraryPieces ==
    {<<"D", "a", "y", " ", "1", ":", " ", "R", "o", "m", "e", "\n">>,
     <<"-", " ", "D", "i", "n", "i", "n", "g", ":", " ", "$", "5", "0", "\n">>,
     <<"D", "a", "y", " ", "t", "r", "i", "p", "\n">>}

Texts(pieces) == {Flatten(ps) : ps \in SeqsUpTo(pieces, MaxPieces)}

\* normalized parameters: the default record, a destination that is a
\* catalog key, and a climate that is a list (building the subtitle raises)
PdfParameters ==
    {get_default_parameters,
     Put(get_default_parameters, "destination", JList(<<JStr(<<"t", "o", "u", "r", "s">>)>>)),
     Put(get_default_parameters, "climate_preferences", JList(<<JStr(S_warm)>>))}

\* which banner files exist: all, none, or all but the second
ImageSets == {{0, 1, 2}, {}, {0, 2}}

S_PdfName == <<"i", "t", "i", "n", "e", "r", "a", "r", "y", "-", "P", "a", "r", "i", "s", "-", "2", "0", "2", "5", "0", "1", "0", "1", "-", "0", "0", "0", "0", "0", "0", ".", "p", "d", "f">>

InitPdf ==
    /\ pc = "p_call"
    /\ request = Unset /\ message = Unset /\ extraction = Unset
    /\ parameters = Unset /\ renormalized = Unset /\ doc_type = "unset"
    /\ generation = Unset
    /\ content = Unset /\ filename = Unset /\ pdf_path = Unset
    /\ reply = Unset /\ calls = <<>> /\ model_calls = 0 /\ documents = {}
    /\ LibIdle
    /\ MoreIdle

\* the content lines of the story, counted from 1
ContentLines(text, p, type, images) ==
    LET st == pdf_story(text, p, type, images)
    IN  Cardinality({i \in 1..Len(st) : st[i].kind = "Paragraph"})

\* where the rendering library can fail: nowhere when it builds the
\* document; otherwise at a content line (a paragraph it cannot lay out or
\* draw; the model lets it be the last one, all lines before it being
\* rendered) or, 0, outside the lines (a sink it cannot open).  Lines
\* 1322-1329: doc.build(story) is called once for the whole story, inside
\* the try block of the whole function
FailingLines(text, p, type, images, render) ==
    IF render = "built" \/ CreatePdfRaises(text, p, type) THEN {0}
    ELSE {0, ContentLines(text.s, p, type, images)}

\* one call create_pdf(content, filename, parameters, doc_type)
AssemblePdf ==
    /\ pc = "p_call"
    /\ \E type \in {"itinerary", "getaway"}, p \in PdfParameters,
          images \in ImageSets, render \in {"built", "fails"} :
         \E text \in Texts(IF type = "getaway" THEN GetawayPieces ELSE ItineraryPieces) :
          \E failing \in FailingLines(JStr(text), p, type, images, render) :
            LET path == create_pdf(JStr(text), JStr(S_PdfName), p, type, render)
            IN  /\ content' = JStr(text)
                /\ line_error' = failing
                /\ parameters' = p
                /\ doc_type' = type
                /\ filename' = JStr(S_PdfName)
                /\ banner_files' = images
                /\ story' = IF CreatePdfRaises(JStr(text), p, type) THEN Raised
                            ELSE pdf_story(text, p, type, images)
                /\ pdf_path' = path
                /\ documents' = IF Truthy(path) THEN {JStr(S_PdfName)} ELSE {}
    /\ pc' = "p_returned"
    /\ calls' = Append(calls, "create_pdf")
    /\ UNCHANGED <<request, message, extraction, renormalized, generation, reply,
                   model_calls>>
    /\ UNCHANGED <<affiliate_links, response_text, link_style, matched_destinations,
                   stored, clock>>
    /\ UNCHANGED <<affiliate_destinations, destination_links, cache, threads,
                   upload_response>>

NextPdf == AssemblePdf

SpecPdf == InitPdf /\ [][NextPdf]_vars

-----------------------------------------------------------------------------
(* Claims about the assembled document, checked under SpecPdf *)

\* create_pdf returned and had built a story
Assembled == pc = "p_returned" /\ story # Raised

\* the positions of the story that hold a block of the given kind
BlocksOfKind(k) == {i \in 1..Len(story) : story[i].kind = k}

\* the banner slots of a getaway document: the 0.2 inch spacers that open a
\* slot (the header holds one 0.2 inch spacer of its own, at position 5)
GetawaySlots == {i \in 6..Len(story) : story[i] = Spacer("0.2")}

\* the number of "Option N:" markers in the generated text
OptionMarkers == {i \in 1..Len(content.s) : MatchOptionMarker(Drop(content.s, i - 1)) > 0}

\* C13: a getaway document never holds more than 3 banner slots (and so no
\* more than 3 banners), however many "Option N:" markers and other
\* occurrences of the word Option the text has.
C13_AtMostThreeBanners ==
    (Assembled /\ doc_type = "getaway") =>
        /\ Cardinality(GetawaySlots) <= 3
        /\ Cardinality(BlocksOfKind("Image")) <= 3

\* a getaway text with 5 markers, all banner files present: 3 banners
C13_Witness ==
    /\ Assembled /\ doc_type = "getaway"
    /\ Cardinality(OptionMarkers) = 5
    /\ banner_files = {0, 1, 2}
    /\ Cardinality(BlocksOfKind("Image")) = 3
    /\ Cardinality(GetawaySlots) = 3

\* no destination the document would link is a catalog key
NoCatalogMatch ==
    /\ doc_type = "getaway" => \A k \in AffiliateKeys : ~Contains(content.s, k)
    /\ \A i \in 1..Len(parameters["destination"].l) :
           parameters["destination"].l[i].s \notin AffiliateKeys

\* C16: when no catalog name matches, the document holds no booking-links
\* section: neither the "Booking Links:" heading nor a link line.
C16_NoLinksNoSection ==
    (Assembled /\ NoCatalogMatch) =>
        BlocksOfKind("BookingHeading") \cup BlocksOfKind("BookingLink") = {}

\* the block is the Paragraph of an "Option N:" header
OptionHeader(b) ==
    /\ b.kind = "Paragraph" /\ b.style = "section_title_style"
    /\ MatchOptionMarker(Drop(b.text, 3)) > 0

\* C23: in a getaway document, banner slots come only after OptionHeader
\* blocks, at most one per header: there are never more slots than
\* "Option N:" markers in the text, and every slot directly follows the
\* Paragraph (and its spacer) of an OptionHeader, never plain body text.
C23_SlotsFollowOptionHeaders ==
    (Assembled /\ doc_type = "getaway") =>
        /\ Cardinality(GetawaySlots) <= Cardinality(OptionMarkers)
        /\ \A i \in GetawaySlots : OptionHeader(story[i - 2])

\* C25: a failure while rendering one line of the text does not abort the
\* document: create_pdf still returns the path of a document.
C25_LineFailureSkipped ==
    (pc = "p_returned" /\ line_error > 0) => (pdf_path # None /\ documents # {})

\* C24: every itinerary document holds exactly one banner, and it directly
\* follows the title at the top of the document, whether or not the banner
\* image could be loaded.
C24_OneBannerUnderTitle ==
    (Assembled /\ doc_type = "itinerary") =>
        /\ Cardinality(BlocksOfKind("Image")) = 1
        /\ story[1].kind = "Header" /\ story[3].kind = "Image"

-----------------------------------------------------------------------------
(* Luxury_Travel_Bot_old.py: the line loop of create_pdf_itinerary, lines  *)
(* 1966-2019                                                               *)

MaxLines == 3        \* lines of an itinerary text
LastDayNumber == 31  \* line 1977: range(1, 32)

CostLabels ==
    {<<"A", "c", "c", "o", "m", "m", "o", "d", "a", "t", "i", "o", "n", ":">>, <<"D", "i", "n", "i", "n", "g", ":">>, <<"A", "c", "t", "i", "v", "i", "t", "i", "e", "s", ":">>, <<"S", "p", "a", ":">>, <<"M", "i", "s", "c", "e", "l", "l", "a", "n", "e", "o", "u", "s", ":">>}

TotalMarkers == {<<"*", "E", "s", "t", "i", "m", "a", "t", "e", "d">>, <<"*", "*", "T", "o", "t", "a", "l">>}

\* s.replace("*", "")
RemoveStars(s) == SelectSeq(s, LAMBDA c : c # "*")

\* the flowables of one stripped, non-blank line; "bullet" stands for the
\* one character U+2022
ItineraryLineBlocks(line) ==
    IF /\ Contains(line, <<"D", "a", "y">>)
       /\ \E i \in 1..LastDayNumber : Contains(line, NumStr(i))
    THEN <<Spacer("0.3"), Para(Strip(RemoveStars(line)), "day_style")>>
    ELSE IF StartsWith(line, <<"-">>)
    THEN <<Para(<<"bullet", " ">> \o Strip(Drop(line, 1)), "activity_style")>>
    ELSE IF \E label \in CostLabels : Contains(line, label)
    THEN <<Para(Strip(line), "cost_style")>>
    ELSE IF \E marker \in TotalMarkers : StartsWith(line, marker)
    THEN <<Spacer("0.2"), Para(Strip(RemoveStars(line)), "day_style")>>
    ELSE <<Para(line, "activity_style")>>

\* lines 1966-2019: `if content:` then every line, stripped, blank ones skipped
ItineraryLines(text) ==
    LET lines == Split(text, "\n")
    IN  Flatten([i \in 1..Len(lines) |->
                    IF Strip(lines[i]) = <<>> THEN <<>>
                    ELSE ItineraryLineBlocks(Strip(lines[i]))])

OldItineraryPieces ==
    {<<"D", "a", "y", " ", "1", ":", " ", "A", "r", "r", "i", "v", "e", " ", "i", "n", " ", "P", "a", "r", "i", "s", "\n">>,
     <<"-", " ", "C", "h", "e", "c", "k", " ", "i", "n", "t", "o", " ", "h", "o", "t", "e", "l", "\n">>,
     <<"A", "c", "c", "o", "m", "m", "o", "d", "a", "t", "i", "o", "n", ":", " ", "$", "5", "0", "0", "\n">>,
     <<"-", " ", "D", "i", "n", "i", "n", "g", ":", " ", "$", "5", "0", "\n">>,
     <<"A", " ", "D", "a", "y", " ", "o", "f", "f", " ", "o", "r", " ", "2", "\n">>,
     <<"*", "*", "T", "o", "t", "a", "l", ":", " ", "$", "5", "5", "0", "\n">>}

OldItineraryTexts == {Flatten(ps) : ps \in SeqsUpTo(OldItineraryPieces, MaxLines)}

\* the line loop of one call of create_pdf_itinerary
AssembleItinerary ==
    /\ pc = "o_serving"
    /\ pc' = "o_assembled"
    /\ \E text \in OldItineraryTexts :
          /\ content' = JStr(text)
          /\ story' = ItineraryLines(text)
    /\ UNCHANGED <<request, message, extraction, parameters, renormalized, doc_type,
                   generation, filename, pdf_path, reply, calls, model_calls, documents>>
    /\ UNCHANGED <<affiliate_links, response_text, link_style, matched_destinations,
                   banner_files, stored, clock>>
    /\ UNCHANGED more_vars

\* the kind the stated precedence gives a stripped, non-blank line
StatedKind(line) ==
    IF StartsWith(line, <<"D", "a", "y">>)
       /\ LET rest == LStrip(Drop(line, 3))
          IN  Len(rest) > 0 /\ rest[1] \in {Digits[i] : i \in 1..Len(Digits)}
    THEN "DayHeader"
    ELSE IF \E label \in CostLabels : Contains(line, label) THEN "CostLine"
    ELSE IF \E marker \in TotalMarkers : StartsWith(line, marker) THEN "SubHeading"
    ELSE "BodyText"

\* how create_pdf_itinerary renders each kind of block
StyleOfKind ==
    [DayHeader |-> "day_style", CostLine |-> "cost_style",
     SubHeading |-> "day_style", BodyText |-> "activity_style"]

\* C14: every non-blank line of an itinerary text is classified by the
\* stated precedence: DayHeader when it begins with "Day" and a number,
\* else CostLine when it holds a cost label, else sub-heading when it begins
\* with an estimate/total marker, else BodyText.
C14_LinePrecedence ==
    pc = "o_assembled" =>
        LET all == Split(content.s, "\n")
            lines == SelectSeq([i \in 1..Len(all) |-> Strip(all[i])], LAMBDA l : l # <<>>)
            paragraphs == SelectSeq(story, LAMBDA b : b.kind = "Paragraph")
        IN  /\ Len(paragraphs) = Len(lines)
            /\ \A i \in 1..Len(lines) :
                   paragraphs[i].style = StyleOfKind[StatedKind(lines[i])]

-----------------------------------------------------------------------------
(* Naming and storing the documents of several requests: generate_filename *)
(* (lines 1332-1360) and create_pdf, which writes STORAGE_DIR/filename     *)

MaxRequests == 2     \* requests handled one after the other or at once

\* normalized parameters: the default record, a destination that holds a
\* path separator, and a scenery with characters outside [A-Za-z0-9 .-]
StoreParameters ==
    {get_default_parameters,
     Put(get_default_parameters, "destination", JList(<<JStr(<<"A", "/", "B">>)>>)),
     Put(get_default_parameters, "geography_scenery", JStr(<<"s", "e", "a", "_", "&", "s", "k", "y">>))}

InitStore ==
    /\ pc = "s_serving"
    /\ request = Unset /\ message = Unset /\ extraction = Unset
    /\ parameters = Unset /\ renormalized = Unset /\ doc_type = "unset"
    /\ generation = Unset
    /\ content = Unset /\ filename = Unset /\ pdf_path = Unset
    /\ reply = Unset /\ calls = <<>> /\ model_calls = 0 /\ documents = {}
    /\ LibIdle
    /\ MoreIdle

\* chat(), lines 1414-1415, for one more request whose generation returned
\* text: the name is taken at the time `now` the clock shows (two requests
\* may be handled within the same second), then the document is written
StoreDocument ==
    /\ pc = "s_serving"
    /\ Len(stored) < MaxRequests
    /\ \E p \in StoreParameters, type \in {"itinerary", "getaway"},
          now \in clock..MaxTime, render \in {"built", "fails"} :
         LET name == generate_filename(p, type, now)
             path == create_pdf(JStr(S_GeneratedText), name, p, type, render)
         IN  /\ parameters' = p
             /\ doc_type' = type
             /\ clock' = now
             /\ filename' = name
             /\ pdf_path' = path
             /\ IF path # None
                THEN /\ stored' = Append(stored, name.s)
                     /\ documents' = documents \cup {name}
                ELSE UNCHANGED <<stored, documents>>
    /\ UNCHANGED <<pc, request, message, extraction, renormalized, generation, content,
                   reply, calls, model_calls>>
    /\ UNCHANGED <<affiliate_links, response_text, link_style, story,
                   matched_destinations, banner_files>>
    /\ UNCHANGED more_vars

NextStore == StoreDocument

SpecStore == InitStore /\ [][NextStore]_vars

\* C15: any two requests, also two with the same parameters handled within
\* the same second, store their documents under different filenames.
C15_DistinctFilenames ==
    \A i, j \in 1..Len(stored) : i # j => stored[i] # stored[j]

\* the characters a sanitized filename may hold
FilenameCharacters ==
    {UpperAlphabet[i] : i \in 1..Len(UpperAlphabet)}
    \cup {LowerAlphabet[i] : i \in 1..Len(LowerAlphabet)}
    \cup {Digits[i] : i \in 1..Len(Digits)} \cup {" ", ".", "-"}

\* C18: every filename produced for a document holds only letters, digits,
\* spaces, periods and hyphens, and so no path separator.
C18_FilenameSanitized ==
    (filename # Unset /\ filename # Raised) =>
        \A k \in 1..Len(filename.s) : filename.s[k] \in FilenameCharacters

-----------------------------------------------------------------------------
(* A further claim about the extractor, checked under SpecExtract *)

\* the first fragment of the reply that holds a brace is a valid object
FirstBracesAreObject(text) ==
    \E i \in 1..Len(text) :
        text[i] = "object" /\ \A j \in 1..(i - 1) : text[j] = "prose"

\* C20: when the reply holds a valid JSON object after prose,
\* extract_parameters returns the normalized parameters of that first
\* object, also when further braces or a second object follow it.
C20_FirstObjectParsed ==
    (Returned /\ extraction.kind = "ok" /\ FirstBracesAreObject(extraction.text))
    => parameters = normalize_parameters(extraction.obj)

-----------------------------------------------------------------------------
(* Luxury_Travel_Bot_old.py: POST /dialogflowWebhook, lines 2162-2513, in  *)
(* four steps: receive, generate, create the document, upload              *)

UpperChar(c) ==
    IF \E i \in 1..Len(LowerAlphabet) : LowerAlphabet[i] = c
    THEN UpperAlphabet[CHOOSE i \in 1..Len(LowerAlphabet) : LowerAlphabet[i] = c]
    ELSE c

\* s.capitalize()
Capitalize(s) == [i \in 1..Len(s) |-> IF i = 1 THEN UpperChar(s[i]) ELSE LowerChar(s[i])]

\* lines 1077-1087: runs of whitespace become one space, the ends are
\* stripped, then every character outside [A-Za-z0-9 .-] is removed
sanitize_filename(name) ==
    LET spaced == [i \in 1..Len(name) |-> IF name[i] \in Whitespace THEN " " ELSE name[i]]
        single == SelectInOrder(spaced,
                      [i \in 1..Len(spaced) |-> ~(spaced[i] = " " /\ i > 1 /\ spaced[i - 1] = " ")])
        allowed == {UpperAlphabet[i] : i \in 1..Len(UpperAlphabet)}
                   \cup {LowerAlphabet[i] : i \in 1..Len(LowerAlphabet)}
                   \cup {Digits[i] : i \in 1..Len(Digits)} \cup {" ", ".", "-"}
    IN  SelectSeq(Strip(single), LAMBDA c : c \in allowed)

S_paris == <<"p", "a", "r", "i", "s">>
S_default_destination == <<"d", "e", "f", "a", "u", "l", "t", "_", "d", "e", "s", "t", "i", "n", "a", "t", "i", "o", "n">>

\* the session parameters of a request: "destination" is absent, a list of
\* {"original": name} dicts, or a list of plain strings; "budget" is absent
\* or a string with a currency sign; number_of_days is absent
WebhookParameters ==
    {[destination |-> d, budget |-> b] :
        d \in {Absent, JList(<<[original |-> S_paris]>>), JList(<<[original |-> S_bali]>>),
               JList(<<JStr(S_paris)>>)},
        b \in {Absent, JStr(S_5000)}}

\* what the request to the model does: it returns text, it fails with a
\* RequestException, or something else raises (no API key, malformed body)
ApiOutcomes ==
    {[kind |-> "text", text |-> t] : t \in ResponseTexts}
    \cup {[kind |-> "none"], [kind |-> "raises"]}

\* lines 1495-1510: text, None on a RequestException, any other exception
\* propagates
call_openai_api(api) ==
    CASE api.kind = "text" -> JStr(api.text)
      [] api.kind = "none" -> None
      [] OTHER -> Raised

\* parameters.get("destination", [{"original": dflt}]) of a parameter record
DestinationList(params, dflt) ==
    IF params.destination = Absent THEN <<[original |-> dflt]>> ELSE params.destination.l

\* lines 1428-1455: the user's destination equals a catalog display name
\* (both lower-cased)
AffiliateTourMatched(catalog, params) ==
    LET destination_list == DestinationList(params, <<"d", "e", "f", "a", "u", "l", "t">>)
        user_destination ==
            IF "original" \in DOMAIN destination_list[1]
            THEN Lower(destination_list[1].original)
            ELSE <<"d", "e", "f", "a", "u", "l", "t">>
        pairs == extract_destinations_with_links(catalog)
    IN  \E i \in 1..Len(pairs) : Lower(pairs[i][1]) = user_destination

\* lines 1415-1484: the values the prompt uses are assigned only under
\* `if not affiliate_tour:` (lines 1458-1470); with a matched tour building
\* the prompt (line 1473) raises UnboundLocalError before any model call
call_openai_itinerary(catalog, params, api) ==
    IF AffiliateTourMatched(catalog, params) THEN Raised ELSE call_openai_api(api)

\* lines 1352-1412: int(parameters.get("budget", 27900)) raises ValueError
\* on a budget string with a currency sign
call_openai_getaways(catalog, params, api) ==
    IF params.budget # Absent THEN Raised ELSE call_openai_api(api)

\* the fulfillmentText of each error reply of the handler, by intent and by
\* the step that failed
webhook_error_SharedMessage(intent, failure) ==
    IF intent = "Itineraries"
    THEN CASE failure = "no text" -> "Error: Unable to generate getaway options."
           [] failure = "upload" -> "Error processing itinerary."
           [] OTHER -> "Error processing itinerary."
    ELSE CASE failure = "no text" -> "Error: Unable to generate getaway options."
           [] failure = "no document" -> "Error creating the getaway PDF."
           [] failure = "upload" -> "Error creating the getaway PDF."
           [] OTHER -> "An error occurred while creating the getaway."

webhook_error(intent, failure) ==
    IF intent = "Itineraries"
    THEN CASE failure = "no text" -> "Error: Unable to generate getaway options."
           [] failure = "upload" -> "Error uploading PDF."
           [] OTHER -> "Error processing itinerary."
    ELSE CASE failure = "no text" -> "Error: Unable to generate getaway options."
           [] failure = "no document" -> "Error creating the getaway PDF."
           [] failure = "upload" -> "Error uploading the getaway PDF."
           [] OTHER -> "An error occurred while creating the getaway."

ErrorReply(msg) == [status |-> HTTP_SERVER_ERROR, body |-> [fulfillmentText |-> msg]]

\* lines 2163-2189: the intent is what detect_intent returns; for
\* Itineraries the destination names are joined outside the inner try, and
\* an item that is no dict raises into the handler's outermost except
WebhookReceive ==
    /\ pc = "o_serving"
    /\ \E intent \in {"Itineraries", "Getaways", "Unknown"}, params \in WebhookParameters :
          /\ request' = [intent |-> intent, parameters |-> params]
          /\ IF intent = "Unknown"
             THEN /\ reply' = [status |-> HTTP_OK, body |-> [fulfillmentText |-> "Unknown intent"]]
                  /\ pc' = "w_done"
             ELSE IF /\ intent = "Itineraries"
                     /\ \E i \in 1..Len(DestinationList(params, S_default_destination)) :
                           "original" \notin DOMAIN DestinationList(params, S_default_destination)[i]
             THEN /\ reply' = ErrorReply("An error occurred in the webhook.")
                  /\ pc' = "w_done"
             ELSE /\ reply' = reply
                  /\ pc' = "w_generate"
    /\ calls' = Append(calls, "detect_intent")
    /\ UNCHANGED <<message, extraction, parameters, renormalized, doc_type, generation,
                   content, filename, pdf_path, model_calls, documents>>
    /\ UNCHANGED lib_vars
    /\ UNCHANGED more_vars

\* lines 2191-2211 and 2359-2377: the generation call and the test of its
\* result
WebhookGenerate ==
    /\ pc = "w_generate"
    /\ \E api \in ApiOutcomes :
         LET intent == request.intent
             text == IF intent = "Itineraries"
                     THEN call_openai_itinerary(affiliate_links, request.parameters, api)
                     ELSE call_openai_getaways(affiliate_links, request.parameters, api)
         IN  /\ generation' = api
             /\ content' = text
             /\ IF text = Raised
                THEN /\ reply' = ErrorReply(webhook_error(intent, "exception"))
                     /\ pc' = "w_done"
                ELSE IF ~Truthy(text)
                THEN /\ reply' = ErrorReply(webhook_error(intent, "no text"))
                     /\ pc' = "w_done"
                ELSE /\ reply' = reply
                     /\ pc' = "w_create"
    /\ calls' = Append(calls, "call_openai")
    /\ model_calls' = model_calls +
           (IF \/ request.intent = "Itineraries"
                  /\ AffiliateTourMatched(affiliate_links, request.parameters)
               \/ request.intent = "Getaways" /\ request.parameters.budget # Absent
            THEN 0 ELSE 1)
    /\ UNCHANGED <<request, message, extraction, parameters, renormalized, doc_type,
                   filename, pdf_path, documents>>
    /\ UNCHANGED lib_vars
    /\ UNCHANGED more_vars

\* " ".join of the "original" names of the destination list
JoinedDestination(params) ==
    LET l == DestinationList(params, S_default_destination)
        named == SelectInOrder(l, [i \in 1..Len(l) |-> "original" \in DOMAIN l[i]])
    IN  JoinStrs(<<" ">>, [i \in 1..Len(named) |-> JStr(named[i].original)])

\* lines 2213-2248 and 2383-2430: the filename, the resolver (called with
\* the module's link_style), and the document; create_pdf_itinerary raises
\* when it fails, create_pdf_with_banners_and_affiliate_links returns None
WebhookCreatePdf ==
    /\ pc = "w_create"
    /\ \E render \in {"built", "fails"} :
         LET intent == request.intent
             r == select_destination_with_affiliate_links(affiliate_links, content.s, "built", <<>>)
             destination == JoinedDestination(request.parameters)
         IN  /\ matched_destinations' = r.value
             /\ response_text' = content.s
             /\ link_style' = "ParagraphStyle"
             /\ IF intent = "Itineraries"
                THEN /\ story' = r.story
                     /\ filename' = JStr(sanitize_filename(
                            <<"7", " ", "d", "a", "y", " ">> \o Capitalize(destination)
                            \o <<" ", "i", "t", "i", "n", "e", "r", "a", "r", "y", ".", "p", "d", "f">>))
                     /\ pdf_path' = IF render = "fails" THEN Raised
                                    ELSE JStr(<<"/", "t", "m", "p", "/", "7", "d", "a", "y", "_">>
                                              \o Lower(Replace(destination, " ", "_"))
                                              \o <<"_", "i", "t", "i", "n", "e", "r", "a", "r", "y", ".", "p", "d", "f">>)
                     /\ IF render = "fails"
                        THEN /\ reply' = ErrorReply(webhook_error(intent, "exception"))
                             /\ pc' = "w_done"
                        ELSE /\ reply' = reply
                             /\ pc' = "w_upload"
                ELSE /\ story' = r.story \o r.story
                     /\ filename' = JStr(sanitize_filename(<<"7", "d", "a", "y", "g", "e", "t", "a", "w", "a", "y", "o", "p", "t", "i", "o", "n", "s", ".", "p", "d", "f">>))
                     /\ pdf_path' = IF render = "fails" THEN None
                                    ELSE JStr(<<"/", "t", "m", "p", "/", "7", "d", "a", "y", "g", "e", "t", "a", "w", "a", "y", "o", "p", "t", "i", "o", "n", "s", ".", "p", "d", "f">>)
                     /\ IF render = "fails"
                        THEN /\ reply' = ErrorReply(webhook_error(intent, "no document"))
                             /\ pc' = "w_done"
                        ELSE /\ reply' = reply
                             /\ pc' = "w_upload"
    /\ calls' = Append(calls, "create_pdf")
    /\ UNCHANGED <<request, message, extraction, parameters, renormalized, doc_type,
                   generation, content, model_calls, documents>>
    /\ UNCHANGED <<affiliate_links, banner_files, stored, clock>>
    /\ destination_links' = IF request.intent = "Getaways"
                            THEN format_getaway_links(
                                     select_destination_with_affiliate_links(
                                         affiliate_links, content.s, "built", <<>>).value)
                            ELSE destination_links
    /\ UNCHANGED <<affiliate_destinations, cache, threads, line_error, upload_response>>

\* what upload_to_gcs_with_public_acl (lines 1183-1208) can do: upload the
\* file and return its public URL; fail before the upload (no file, no
\* client) and return None; or upload the file, fail to save the ACL, and
\* return None
UploadOutcomes == {"url", "none", "uploaded, acl fails"}

\* a variant that answers with the download URL whatever the upload did
upload_reply_IgnoringFailure(intent, outcome, blob) ==
    [status |-> HTTP_OK, body |-> [download_url |-> blob]]

\* lines 2252-2285 and 2437-2487: the reply after the upload
upload_reply(intent, outcome, blob) ==
    IF outcome = "url"
    THEN [status |-> HTTP_OK, body |-> [download_url |-> blob]]
    ELSE ErrorReply(webhook_error(intent, "upload"))

\* lines 2249-2291 and 2432-2487: the upload of the document as the blob
\* pdfs/<filename>, and the reply
WebhookUpload ==
    /\ pc = "w_upload"
    /\ \E outcome \in UploadOutcomes :
         LET blob == JStr(<<"p", "d", "f", "s", "/">> \o filename.s)
         IN  /\ upload_response' = outcome
             /\ documents' = IF outcome = "none" THEN documents
                             ELSE documents \cup {blob}
             /\ reply' = upload_reply(request.intent, outcome, blob)
    /\ pc' = "w_done"
    /\ calls' = Append(calls, "upload_to_gcs_with_public_acl")
    /\ UNCHANGED <<request, message, extraction, parameters, renormalized, doc_type,
                   generation, content, filename, pdf_path, model_calls>>
    /\ UNCHANGED lib_vars
    /\ UNCHANGED <<affiliate_destinations, destination_links, cache, threads, line_error>>

NextOld ==
    \/ ImportAddDestination \/ Resolve \/ FormatGetawayResults \/ AssembleItinerary
    \/ WebhookReceive \/ WebhookGenerate \/ WebhookCreatePdf \/ WebhookUpload

SpecOld == InitOld /\ [][NextOld]_vars

-----------------------------------------------------------------------------
(* Claim about the replies of the webhook, checked under SpecOld *)

\* the handler replied with an error after the named step was its last call
FailedAt(step) ==
    /\ pc = "w_done" /\ reply.status = HTTP_SERVER_ERROR
    /\ calls[Len(calls)] = step

C28_ItineraryCallNeverRaises ==
    (generation # Unset /\ generation.kind # "raises"
     /\ request.intent = "Itineraries") =>
        (content # Raised /\ model_calls = 1)

\* the three steps of a request, as the handler left them
GenerationReturnedText == content # Unset /\ content # Raised /\ Truthy(content)
DocumentCreated == pdf_path # Unset /\ pdf_path # Raised /\ Truthy(pdf_path)
UploadSucceeded == upload_response = "url"

\* C30: the webhook replies with a download URL only when generation
\* returned text, then the document was created, then the upload
\* succeeded, in that order; when one of the three steps fails, the reply
\* is an error with status 500 and without a download URL.
C30_SuccessOnlyAfterAllSteps ==
    (pc = "w_done") =>
        /\ "download_url" \in DOMAIN reply.body =>
              /\ reply.status = HTTP_OK
              /\ GenerationReturnedText /\ DocumentCreated /\ UploadSucceeded
              /\ calls = <<"detect_intent", "call_openai", "create_pdf",
                           "upload_to_gcs_with_public_acl">>
        /\ (request.intent # "Unknown"
            /\ ~(GenerationReturnedText /\ DocumentCreated /\ UploadSucceeded)) =>
              /\ reply.status = HTTP_SERVER_ERROR
              /\ "download_url" \notin DOMAIN reply.body

\* an itinerary request all of whose steps succeeded
C30_Witness ==
    /\ pc = "w_done" /\ request.intent = "Itineraries"
    /\ "download_url" \in DOMAIN reply.body
    /\ GenerationReturnedText /\ DocumentCreated /\ UploadSucceeded

-----------------------------------------------------------------------------
(* Luxury_Travel_Bot_old.py: the response cache of                         *)
(* call_openai_or_data_store, lines 1327-1348, with requests served at the *)
(* same time (the server runs its handlers in threads; the function takes  *)
(* no lock)                                                                *)

Threads == {"t1", "t2"}

\* the destination arguments: lists of words
CacheDestinations == {<<S_Bali>>, <<S_bali>>, <<S_London>>}

\* line 1331: " ".join(destination).lower().strip()
search_term(destination) ==
    Strip(Lower(JoinStrs(<<" ">>, [i \in 1..Len(destination) |-> JStr(destination[i])])))

\* call_openai(user_query, affiliate_links, parameters), line 1341: the
\* module defines no function of this name, so the call raises NameError;
\* with the function in place it returns a generated text or a falsy value
CallOpenaiOutcomes == {JStr(S_GeneratedText), JStr(S_Bali), None, Raised}

IdleThread == [pc |-> "idle", search_term |-> Unset, response |-> Unset, result |-> Unset]

InitCache ==
    /\ pc = "c_serving"
    /\ request = Unset /\ message = Unset /\ extraction = Unset
    /\ parameters = Unset /\ renormalized = Unset /\ doc_type = "unset"
    /\ generation = Unset
    /\ content = Unset /\ filename = Unset /\ pdf_path = Unset
    /\ reply = Unset /\ calls = <<>> /\ model_calls = 0 /\ documents = {}
    /\ LibIdle
    /\ affiliate_destinations = Unset /\ destination_links = Unset
    /\ line_error = 0 /\ upload_response = Unset
    /\ cache = <<>>
    /\ threads = [t \in Threads |-> IdleThread]

\* what a step of one thread leaves alone
CacheFrame ==
    /\ UNCHANGED <<pc, request, message, extraction, parameters, renormalized, doc_type,
                   generation, content, filename, pdf_path, reply, calls, documents>>
    /\ UNCHANGED lib_vars
    /\ UNCHANGED <<affiliate_destinations, destination_links, line_error, upload_response>>

\* line 1331: a call starts and computes its key
CacheBegin(t) ==
    /\ threads[t].pc = "idle"
    /\ \E destination \in CacheDestinations :
          threads' = [threads EXCEPT ![t] = [@ EXCEPT !.pc = "lookup",
                                               !.search_term = search_term(destination)]]
    /\ UNCHANGED <<cache, model_calls>>
    /\ CacheFrame

\* lines 1332-1333: a key in the cache is answered from it
CacheLookup(t) ==
    /\ threads[t].pc = "lookup"
    /\ threads' = [threads EXCEPT ![t] =
                      IF threads[t].search_term \in DOMAIN cache
                      THEN [@ EXCEPT !.pc = "returned",
                                     !.result = cache[threads[t].search_term]]
                      ELSE [@ EXCEPT !.pc = "call"]]
    /\ UNCHANGED <<cache, model_calls>>
    /\ CacheFrame

\* lines 1336-1344: the model call; a falsy response is returned as None
\* and not cached
CacheCall(t) ==
    /\ threads[t].pc = "call"
    /\ \E response \in CallOpenaiOutcomes :
          threads' = [threads EXCEPT ![t] =
                         IF response = Raised
                         THEN [@ EXCEPT !.pc = "returned", !.result = Raised]
                         ELSE IF ~Truthy(response)
                         THEN [@ EXCEPT !.pc = "returned", !.response = response,
                                        !.result = None]
                         ELSE [@ EXCEPT !.pc = "store", !.response = response]]
    /\ model_calls' = model_calls + 1
    /\ UNCHANGED cache
    /\ CacheFrame

\* lines 1347-1348: cache[search_term] = response
CacheStore(t) ==
    /\ threads[t].pc = "store"
    /\ cache' = Put(cache, threads[t].search_term, threads[t].response)
    /\ threads' = [threads EXCEPT ![t] = [@ EXCEPT !.pc = "returned",
                                                   !.result = threads[t].response]]
    /\ UNCHANGED model_calls
    /\ CacheFrame

NextCache ==
    \E t \in Threads : CacheBegin(t) \/ CacheLookup(t) \/ CacheCall(t) \/ CacheStore(t)

SpecCache == InitCache /\ [][NextCache]_vars

====
